---- MODULE Spec2Model ----
(***************************************************************************)
(* Virtual-noded BCC tetrahedra (SkinFlaps, vnBccTetrahedra.cpp) and the   *)
(* hooks that call into it (hooks.cpp).                                    *)
(*                                                                         *)
(* A centroid (bccTetCentroid) is a triple of unsigned 16-bit integers,    *)
(* written <<x, y, z>>; the code's axis a in 0..2 is position a+1 of the   *)
(* tuple.  A lattice-space point (Vec3f) is a triple of integers over a    *)
(* common denominator (a "scale"): the value is the integer divided by     *)
(* the scale, so every comparison of the code is made exactly.             *)
(***************************************************************************)
EXTENDS Integers, Sequences, FiniteSets, TLC

VARIABLES
    op,                   \* the operation applied last ("input" before any)
    arg,                  \* its inputs
    out,                  \* its outputs
    nodeGridLoci,         \* _nodeGridLoci: node index -> lattice position
    tetNodes,             \* _tetNodes: tet index -> its 4 node indices
    tetCentroids,         \* _tetCentroids: tet index -> centroid
    tetHash,              \* _tetHash: the multimap, a set of <<centroid, tet>> entries
    vertexTets,           \* _vertexTets: vertex -> tet
    barycentricWeights,   \* _barycentricWeights: vertex -> 3 weights (over BaryScale)
    tetSubdivisionLevels, \* _tetSubdivisionLevels
    hooks,                \* hooks::_hooks: hook number -> hookConstraint
    hookNow,              \* hooks::_hookNow
    triangleMaterial,     \* materialTriangles::triangleMaterial of every triangle
    deepCutTriangles,     \* _deepCut->getMaterialTriangles() != nullptr
    solverInitialized,    \* _ptp->solverInitialized()
    lookups               \* the calls of parametricTriangleTet made by the last hooks operation

callVars == <<op, arg, out>>

latticeVars == <<nodeGridLoci, tetNodes, tetCentroids, tetHash, vertexTets,
                 barycentricWeights, tetSubdivisionLevels>>

hookVars == <<hooks, hookNow, triangleMaterial, deepCutTriangles, solverInitialized, lookups>>

vars == <<op, arg, out, nodeGridLoci, tetNodes, tetCentroids, tetHash, vertexTets,
          barycentricWeights, tetSubdivisionLevels, hooks, hookNow, triangleMaterial,
          deepCutTriangles, solverInitialized, lookups>>

(***************************************************************************)
(* Bounds of the model.                                                    *)
(***************************************************************************)
\* largest centroid coordinate of a size-1 input centroid
MaxCoord == 8

\* unit cubes with minimum corner in (0..MaxCube)^3: every parity class
MaxCube == 1

\* fractional offsets k / GridDenom
GridDenom == 4

\* barycentric weights k / BaryScale
BaryScale == 4

\* largest number of tets in the lattice store
MaxTets == 3

\* largest configured number of subdivision levels
MaxSubdivisionLevels == 3

\* triangles 0..MaxTriangles - 1 of the surface mesh
MaxTriangles == 2

\* largest number of hooks ever added
MaxHooks == 3

(***************************************************************************)
(* Machine arithmetic.                                                     *)
(***************************************************************************)
USHRT_MAX == 65535

\* conversion to unsigned short: modulo 2^16
U16(x) == x % 65536

\* conversion to short
S16(x) == LET y == x % 65536 IN IF y >= 32768 THEN y - 65536 ELSE y

\* x & bit for a mask with a single bit set: 0 or bit
AndBit(x, bit) == ((x \div bit) % 2) * bit

\* conversion of a float to an integer type: truncation toward zero of num/den
Trunc(num, den) == IF num >= 0 THEN num \div den ELSE -((-num) \div den)

Axes == 0..2

At(v, a) == v[a + 1]

\* v[a] += d on an unsigned short triple
AddU16(v, a, d) == [v EXCEPT ![a + 1] = U16(@ + d)]

\* v[a] += d on a triple of shorts
AddS16(v, a, d) == [v EXCEPT ![a + 1] = S16(@ + d)]

Scaled(tc, s) == <<tc[1] * s, tc[2] * s, tc[3] * s>>

(***************************************************************************)
(* Centroid algebra.                                                       *)
(***************************************************************************)
RECURSIVE HalfAxisSizeFrom(_, _)
HalfAxisSizeFrom(tc, size) ==
    IF size > 32768 THEN [hc |-> -1, size |-> 0]
    ELSE IF AndBit(tc[1], size) # 0 THEN [hc |-> 0, size |-> size]
    ELSE IF AndBit(tc[2], size) # 0 THEN [hc |-> 1, size |-> size]
    ELSE IF AndBit(tc[3], size) # 0 THEN [hc |-> 2, size |-> size]
    ELSE HalfAxisSizeFrom(tc, size * 2)

\* decode: the lowest set bit of the three coordinates is the size, the first
\* axis that carries it is the half axis; hc = -1 when no bit is set
centroidHalfAxisSize(tc) == HalfAxisSizeFrom(tc, 1)

\* a centroid of the lattice: only the half axis carries the size bit and the
\* two other axes differ in the next bit
ValidCentroid(tc) ==
    LET d == centroidHalfAxisSize(tc)
        c1 == (d.hc + 1) % 3
        c2 == (d.hc + 2) % 3
    IN  /\ d.hc >= 0
        /\ AndBit(At(tc, c1), d.size) = 0
        /\ AndBit(At(tc, c2), d.size) = 0
        /\ AndBit(At(tc, c1), 2 * d.size) # AndBit(At(tc, c2), 2 * d.size)

InvalidCentroid == <<USHRT_MAX, USHRT_MAX, USHRT_MAX>>

centroidToNodeLoci(centroid) ==
    LET d == centroidHalfAxisSize(centroid)
        hc == d.hc
        size == d.size
        levelUpBit == size * 2
        c1 == IF hc < 2 THEN hc + 1 ELSE 0
        c2 == IF hc > 0 THEN hc - 1 ELSE 2
        g0 == <<S16(centroid[1]), S16(centroid[2]), S16(centroid[3])>>
        below == AndBit(At(centroid, hc), levelUpBit) = AndBit(At(centroid, c2), levelUpBit)
        gl == IF below
              THEN [j \in 0..3 |->
                     CASE j = 0 -> AddS16(AddS16(g0, hc, -size), c1, -levelUpBit)
                       [] j = 1 -> AddS16(AddS16(g0, hc, -size), c1, levelUpBit)
                       [] j = 2 -> AddS16(AddS16(g0, hc, size), c2, levelUpBit)
                       [] j = 3 -> AddS16(AddS16(g0, hc, size), c2, -levelUpBit)]
              ELSE [j \in 0..3 |->
                     CASE j = 0 -> AddS16(AddS16(g0, hc, size), c1, -levelUpBit)
                       [] j = 1 -> AddS16(AddS16(g0, hc, size), c1, levelUpBit)
                       [] j = 2 -> AddS16(AddS16(g0, hc, -size), c2, -levelUpBit)
                       [] j = 3 -> AddS16(AddS16(g0, hc, -size), c2, levelUpBit)]
    IN  [j \in 0..3 |-> <<S16(Trunc(gl[j][1], 2)), S16(Trunc(gl[j][2], 2)),
                          S16(Trunc(gl[j][3], 2))>>]

\* subtetCentroidsThrows with the test level < 1
subtetCentroidsThrowsBelowOne(macroCentroid) == centroidHalfAxisSize(macroCentroid).size < 1

\* subtetCentroids throws the logic error on a size-1 centroid
subtetCentroidsThrows(macroCentroid) == centroidHalfAxisSize(macroCentroid).size < 2

subtetCentroids(macroCentroid) ==
    LET d == centroidHalfAxisSize(macroCentroid)
        hc == d.hc
        level == d.size
        levelUp == level * 2
        levelDown == level \div 2
        c1 == (hc + 1) % 3
        c2 == (hc + 2) % 3
        up == AndBit(At(macroCentroid, hc), levelUp) = AndBit(At(macroCentroid, c2), levelUp)
        s0 == [i \in 0..7 |->
                 IF i < 2 THEN AddU16(macroCentroid, hc, IF up THEN -levelDown ELSE levelDown)
                 ELSE IF i < 4 THEN AddU16(macroCentroid, hc, IF up THEN levelDown ELSE -levelDown)
                 ELSE macroCentroid]
        s1 == IF At(s0[0], c1) < level
              THEN [s0 EXCEPT ![0] = InvalidCentroid]
              ELSE [s0 EXCEPT ![0] = AddU16(@, c1, -level)]
        s2 == [s1 EXCEPT ![1] = AddU16(@, c1, level)]
        lo == IF up THEN 3 ELSE 2
        hi == IF up THEN 2 ELSE 3
        s3 == IF At(s2[lo], c2) < level
              THEN [s2 EXCEPT ![lo] = InvalidCentroid]
              ELSE [s2 EXCEPT ![lo] = AddU16(@, c2, -level)]
        s4 == [s3 EXCEPT ![hi] = AddU16(@, c2, level)]
        s5 == IF At(s4[4], c1) < levelDown
              THEN [s4 EXCEPT ![4] = InvalidCentroid]
              ELSE [s4 EXCEPT ![4] = AddU16(@, c1, -levelDown)]
        s6 == [s5 EXCEPT ![5] = AddU16(@, c1, levelDown)]
        s7 == IF At(s6[6], c2) < levelDown
              THEN [s6 EXCEPT ![6] = InvalidCentroid]
              ELSE [s6 EXCEPT ![6] = AddU16(@, c2, -levelDown)]
    IN  [s7 EXCEPT ![7] = AddU16(@, c2, levelDown)]

\* upCoreMove with the two directions exchanged
upCoreMoveReversed(tcIn) ==
    LET d == centroidHalfAxisSize(tcIn)
        levelBit == d.size
    IN  AddU16(tcIn, d.hc, IF AndBit(At(tcIn, d.hc), levelBit * 2) # 0 THEN -levelBit ELSE levelBit)

\* line 1202: the move along the half axis that a core subtet needs
upCoreMove(tcIn) ==
    LET d == centroidHalfAxisSize(tcIn)
        levelBit == d.size
    IN  AddU16(tcIn, d.hc, IF AndBit(At(tcIn, d.hc), levelBit * 2) # 0 THEN levelBit ELSE -levelBit)

\* lines 1212-1230: a corner subtet keeps its half axis one level up
upCornerMove(tcIn) ==
    LET d == centroidHalfAxisSize(tcIn)
        hc == d.hc
        levelBit == d.size
        levelX2 == levelBit * 2
        levelX4 == levelX2 * 2
        c1 == (hc + 1) % 3
        c2 == (hc + 2) % 3
        t1 == AddU16(tcIn, hc, IF AndBit(At(tcIn, hc), levelX2) # 0 THEN -levelBit ELSE levelBit)
    IN  IF AndBit(At(t1, c1), levelX2) # 0
        THEN IF AndBit(At(t1, c2), levelX4) # 0
             THEN AddU16(t1, c1, IF AndBit(At(t1, c1), levelX4) # 0 THEN levelX2 ELSE -levelX2)
             ELSE AddU16(t1, c1, IF AndBit(At(t1, c1), levelX4) # 0 THEN -levelX2 ELSE levelX2)
        ELSE IF AndBit(At(t1, c1), levelX4) # 0
             THEN AddU16(t1, c2, IF AndBit(At(t1, c2), levelX4) # 0 THEN levelX2 ELSE -levelX2)
             ELSE AddU16(t1, c2, IF AndBit(At(t1, c2), levelX4) # 0 THEN -levelX2 ELSE levelX2)

centroidUpOneLevel(tcIn) ==
    LET d == centroidHalfAxisSize(tcIn)
        hc == d.hc
        levelX2 == d.size * 2
        levelX4 == levelX2 * 2
        c1 == (hc + 1) % 3
        c2 == (hc + 2) % 3
        tcUp == upCoreMove(tcIn)
    IN  IF /\ AndBit(At(tcUp, c1), levelX2) # 0
           /\ AndBit(At(tcUp, hc), levelX4) # AndBit(At(tcUp, c2), levelX4)
        THEN tcUp
        ELSE IF /\ AndBit(At(tcUp, c2), levelX2) # 0
                /\ AndBit(At(tcUp, hc), levelX4) # AndBit(At(tcUp, c1), levelX4)
        THEN tcUp
        ELSE upCornerMove(tcIn)

\* microtetIsUp reading the other secondary axis
microtetIsUpOtherAxis(tc) ==
    LET ha == IF AndBit(tc[1], 1) # 0 THEN 0 ELSE IF AndBit(tc[2], 1) # 0 THEN 1 ELSE 2
    IN  AndBit((At(tc, ha) + At(tc, (ha + 2) % 3)) \div 2, 1) # 0

\* line 312: the orientation test of a microtet
microtetIsUp(tc) ==
    LET ha == IF AndBit(tc[1], 1) # 0 THEN 0 ELSE IF AndBit(tc[2], 1) # 0 THEN 1 ELSE 2
    IN  AndBit((At(tc, ha) + At(tc, (ha + 1) % 3)) \div 2, 1) # 0

faceAdjacentMicrotet(tc, face) ==
    LET ha == IF AndBit(tc[1], 1) # 0 THEN 0 ELSE IF AndBit(tc[2], 1) # 0 THEN 1 ELSE 2
        aha1 == (ha + 1) % 3
        aha2 == (ha + 2) % 3
        dec == AddU16(tc, ha, -1)
        inc == AddU16(tc, ha, 1)
    IN  IF microtetIsUp(tc)
        THEN \* up tet
             IF face < 1 \/ face > 2
             THEN IF At(tc, ha) < 1 THEN [adjFace |-> -1, tcAdj |-> tc]
                  ELSE IF face > 2 /\ At(dec, aha2) < 1 THEN [adjFace |-> -1, tcAdj |-> dec]
                  ELSE [adjFace |-> 1,
                        tcAdj |-> AddU16(dec, aha2, IF face < 1 THEN 1 ELSE -1)]
             ELSE IF face > 1 /\ At(inc, aha1) < 1 THEN [adjFace |-> -1, tcAdj |-> inc]
                  ELSE [adjFace |-> IF face < 2 THEN 3 ELSE 0,
                        tcAdj |-> AddU16(inc, aha1, IF face < 2 THEN 1 ELSE -1)]
        ELSE \* down tet
             IF face < 1 \/ face > 2
             THEN IF face < 1 /\ At(inc, aha2) < 1 THEN [adjFace |-> -1, tcAdj |-> inc]
                  ELSE [adjFace |-> 2,
                        tcAdj |-> AddU16(inc, aha2, IF face < 1 THEN -1 ELSE 1)]
             ELSE IF At(tc, ha) < 1 THEN [adjFace |-> -1, tcAdj |-> tc]
                  ELSE IF face > 1 /\ At(dec, aha1) < 1 THEN [adjFace |-> -1, tcAdj |-> dec]
                  ELSE [adjFace |-> IF face < 2 THEN 0 ELSE 3,
                        tcAdj |-> AddU16(dec, aha1, IF face < 2 THEN 1 ELSE -1)]

faceAdjacentCentroid(tc, face) ==
    LET d == centroidHalfAxisSize(tc)
        ha == d.hc
        size == d.size
        t0 == AddU16(tc, ha, -size)
    IN  IF face < 1 \/ face > 2
        THEN LET aha == (ha + 2) % 3
                 t1 == AddU16(t0, aha, size)
             IN  IF AndBit((At(tc, ha) + At(tc, aha)) \div 2, size) # 0
                 THEN \* down tet
                      LET t2 == AddU16(t1, ha, 2 * size)
                      IN  IF face < size
                          THEN IF At(t2, aha) < 2 * size THEN [adjFace |-> -1, tcAdj |-> t2]
                               ELSE [adjFace |-> 2, tcAdj |-> AddU16(t2, aha, -2 * size)]
                          ELSE [adjFace |-> 2, tcAdj |-> t2]
                 ELSE IF face > 2
                      THEN IF At(t1, aha) < 2 * size THEN [adjFace |-> -1, tcAdj |-> t1]
                           ELSE [adjFace |-> 1, tcAdj |-> AddU16(t1, aha, -2 * size)]
                      ELSE [adjFace |-> 1, tcAdj |-> t1]
        ELSE LET aha == (ha + 1) % 3
                 t1 == AddU16(t0, aha, size)
                 under == face > 1 /\ At(t1, aha) < 2 * size
                 t2 == IF face > 1 THEN AddU16(t1, aha, -2 * size) ELSE t1
             IN  IF under THEN [adjFace |-> -1, tcAdj |-> t1]
                 ELSE IF AndBit((At(tc, ha) + At(tc, aha)) \div 2, size) # 0
                 THEN \* up tet
                      [adjFace |-> IF face > 1 THEN 0 ELSE 3, tcAdj |-> AddU16(t2, ha, 2 * size)]
                 ELSE [adjFace |-> IF face > 1 THEN 3 ELSE 0, tcAdj |-> t2]

\* nodeMicroCentroids with the half axis taken from dim alone
nodeMicroCentroidsOneAxis(node) ==
    [count \in 0..23 |->
        LET dim == count \div 8
            pos == IF (count \div 4) % 2 = 0 THEN -1 ELSE 1
            i == count % 4
            tc0 == AddU16(<<U16(node[1]), U16(node[2]), U16(node[3])>>, dim, pos)
            tc == <<U16(tc0[1] * 2), U16(tc0[2] * 2), U16(tc0[3] * 2)>>
            hc == (1 + dim) % 3
        IN  AddU16(tc, hc, IF i % 2 = 1 THEN 1 ELSE -1)]

\* entry count of cntrd is written in iteration (dim, pos, i) of the loops
nodeMicroCentroids(node) ==
    [count \in 0..23 |->
        LET dim == count \div 8
            pos == IF (count \div 4) % 2 = 0 THEN -1 ELSE 1
            i == count % 4
            tc0 == AddU16(<<U16(node[1]), U16(node[2]), U16(node[3])>>, dim, pos)
            tc == <<U16(tc0[1] * 2), U16(tc0[2] * 2), U16(tc0[3] * 2)>>
            hc == ((i \div 2) + 1 + dim) % 3
        IN  AddU16(tc, hc, IF i % 2 = 1 THEN 1 ELSE -1)]

(***************************************************************************)
(* Point location.  A point is a triple of integers p over a scale: the    *)
(* lattice-space coordinate is p[i] / scale.                               *)
(***************************************************************************)

\* lines 104-202: the three moves of each branch of each parity class, as
\* <<axis, sign>> in half units: the move of the branch, the move when the
\* inner comparison holds, the move when it does not.
\* rows: dxyz[0] largest, dxyz[1] largest, otherwise
lowestTetMoves(split) ==
    IF split[1] = split[2] /\ split[1] = split[3]
    THEN << << <<0, 1>>, <<2, -1>>, <<1, -1>> >>,
            << <<1, 1>>, <<2, -1>>, <<0, -1>> >>,
            << <<2, 1>>, <<1, -1>>, <<0, -1>> >> >>
    ELSE IF split[1] = split[2]
    THEN << << <<0, 1>>, <<2, 1>>, <<1, -1>> >>,
            << <<1, 1>>, <<2, 1>>, <<0, -1>> >>,
            << <<2, -1>>, <<1, -1>>, <<0, -1>> >> >>
    ELSE IF split[1] = split[3]
    THEN << << <<0, 1>>, <<2, -1>>, <<1, 1>> >>,
            << <<1, -1>>, <<2, -1>>, <<0, -1>> >>,
            << <<2, 1>>, <<1, 1>>, <<0, -1>> >> >>
    ELSE << << <<0, -1>>, <<2, -1>>, <<1, -1>> >>,
            << <<1, 1>>, <<2, -1>>, <<0, 1>> >>,
            << <<2, 1>>, <<1, -1>>, <<0, 1>> >> >>

\* lines 131, 155, 180: the fractional offset that is replaced by 1 - offset
lowestTetFlip(split, dxyz, scale) ==
    IF split[1] = split[2] /\ split[1] = split[3] THEN dxyz
    ELSE IF split[1] = split[2] THEN [dxyz EXCEPT ![3] = scale - @]
    ELSE IF split[1] = split[3] THEN [dxyz EXCEPT ![2] = scale - @]
    ELSE [dxyz EXCEPT ![1] = scale - @]

\* lowestTetBranch with the inner comparisons taken as >=
lowestTetBranchInnerGeq(d) ==
    IF d[1] > d[2] /\ d[1] > d[3] THEN [row |-> 1, inner |-> d[2] >= d[3]]
    ELSE IF d[2] > d[1] /\ d[2] > d[3] THEN [row |-> 2, inner |-> d[1] >= d[3]]
    ELSE [row |-> 3, inner |-> d[1] >= d[2]]

\* lines 108-128 (and the same shape in the three other classes): which
\* branch is taken and which inner comparison decides
lowestTetBranch(d) ==
    IF d[1] > d[2] /\ d[1] > d[3] THEN [row |-> 1, inner |-> d[2] > d[3]]
    ELSE IF d[2] > d[1] /\ d[2] > d[3] THEN [row |-> 2, inner |-> d[1] > d[3]]
    ELSE [row |-> 3, inner |-> d[1] > d[2]]

\* lines 203-204: newC *= 2.0001f and the conversion to unsigned short, on a
\* coordinate given in half units
lowestTetRound(half) == U16(Trunc(half * 20001, 20000))

gridLocusToLowestTetCentroid(gridLocus, scale) ==
    LET tc == [i \in 1..3 |-> S16(gridLocus[i] \div scale)]
        dxyz == [i \in 1..3 |-> gridLocus[i] - tc[i] * scale]
        split == [i \in 1..3 |-> AndBit(tc[i], 1) # 0]
        center == <<2 * tc[1] + 1, 2 * tc[2] + 1, 2 * tc[3] + 1>>
        d == lowestTetFlip(split, dxyz, scale)
        b == lowestTetBranch(d)
        mv == lowestTetMoves(split)[b.row]
        m1 == mv[1]
        m2 == IF b.inner THEN mv[2] ELSE mv[3]
        c1 == [center EXCEPT ![m1[1] + 1] = @ + m1[2]]
        newC == [c1 EXCEPT ![m2[1] + 1] = @ + m2[2]]
    IN  <<lowestTetRound(newC[1]), lowestTetRound(newC[2]), lowestTetRound(newC[3])>>

\* lines 881-897: the half axis and the bit above the size, found in place
RECURSIVE insideTetDecode(_, _)
insideTetDecode(tc, dd) ==
    IF AndBit(tc[1], dd) # 0 THEN [hc |-> 0, dd |-> 2 * dd]
    ELSE IF AndBit(tc[2], dd) # 0 THEN [hc |-> 1, dd |-> 2 * dd]
    ELSE IF AndBit(tc[3], dd) # 0 THEN [hc |-> 2, dd |-> 2 * dd]
    ELSE insideTetDecode(tc, 2 * dd)

\* insideTet(const bccTetCentroid&, const Vec3f&)
insideTet(tc, gridLocus, scale) ==
    LET e == insideTetDecode(tc, 1)
        hc == e.hc
        dd == e.dd
        c1 == (hc + 1) % 3
        c2 == (hc + 2) % 3
        up == AndBit(At(tc, hc), dd) = AndBit(At(tc, c2), dd)
        g(a) == At(gridLocus, a)
        Va == At(tc, c2) \div 2
        Vc == At(tc, c1) \div 2
    IN  IF up
        THEN LET Vb == IF dd < 3 THEN At(tc, hc) \div 2 ELSE (At(tc, hc) \div 2) - (dd \div 4)
                 Vd == IF dd < 3 THEN Vb + 1 ELSE Vb + (dd \div 2)
             IN  /\ ~(g(c2) - g(hc) > (Va - Vb) * scale)
                 /\ ~(-g(c2) - g(hc) > (-Va - Vb) * scale)
                 /\ ~(g(c1) + g(hc) > (Vc + Vd) * scale)
                 /\ ~(-g(c1) + g(hc) > (-Vc + Vd) * scale)
        ELSE LET Vb == IF dd < 3 THEN (At(tc, hc) \div 2) + 1 ELSE (At(tc, hc) \div 2) + (dd \div 4)
                 Vd == IF dd < 3 THEN Vb - 1 ELSE Vb - (dd \div 2)
             IN  /\ ~(g(c2) + g(hc) > (Va + Vb) * scale)
                 /\ ~(-g(c2) + g(hc) > (-Va + Vb) * scale)
                 /\ ~(g(c1) - g(hc) > (Vc - Vd) * scale)
                 /\ ~(-g(c1) - g(hc) > (-Vc - Vd) * scale)

\* insideTet(const bccTetCentroid&, const std::array<short, 3>&)
insideTetShort(tc, nodeLocus) ==
    LET e == insideTetDecode(tc, 1)
        hc == e.hc
        dd == e.dd
        c1 == (hc + 1) % 3
        c2 == (hc + 2) % 3
        up == AndBit(At(tc, hc), dd) = AndBit(At(tc, c2), dd)
        g(a) == At(nodeLocus, a)
        Va == At(tc, c2) \div 2
        Vc == At(tc, c1) \div 2
    IN  IF up
        THEN LET Vb == IF dd < 3 THEN At(tc, hc) \div 2 ELSE (At(tc, hc) \div 2) + (dd \div 4)
                 Vd == IF dd < 3 THEN Vb + 1 ELSE Vb + (dd \div 2)
             IN  /\ ~(g(c2) - g(hc) > Va - Vb)
                 /\ ~(-g(c2) - g(hc) > -Va - Vb)
                 /\ ~(g(c1) + g(hc) > Vc + Vd)
                 /\ ~(-g(c1) + g(hc) > -Vc + Vd)
        ELSE LET Vb == IF dd < 3 THEN (At(tc, hc) \div 2) + 1 ELSE (At(tc, hc) \div 2) + (dd \div 4)
                 Vd == IF dd < 3 THEN Vb - 1 ELSE Vb - (dd \div 2)
             IN  /\ ~(g(c2) + g(hc) > Va + Vb)
                 /\ ~(-g(c2) + g(hc) > -Va + Vb)
                 /\ ~(g(c1) - g(hc) > Vc - Vd)
                 /\ ~(-g(c1) - g(hc) > -Vc - Vd)

\* unitCubeSplit with the pattern of the all-equal parity class in every cube
unitCubeSplitOneClass(minimumCorner) == <<TRUE, TRUE, TRUE>>

\* lines 386-399: the diagonal pattern of a unit cube from its corner parity
unitCubeSplit(minimumCorner) ==
    LET split == [i \in 1..3 |-> AndBit(minimumCorner[i], 1) # 0]
    IN  IF split[1] = split[2] /\ split[1] = split[3] THEN <<TRUE, TRUE, TRUE>>
        ELSE IF split[1] = split[2] THEN <<FALSE, FALSE, TRUE>>
        ELSE IF split[1] = split[3] THEN <<FALSE, TRUE, FALSE>>
        ELSE <<TRUE, FALSE, FALSE>>

\* unitCubeCentroids(const short(&)[3], Vec3f(&)[6]), in half units
unitCubeCentroidLoci(minimumCorner) ==
    LET split == unitCubeSplit(minimumCorner)
        center == <<2 * minimumCorner[1] + 1, 2 * minimumCorner[2] + 1,
                    2 * minimumCorner[3] + 1>>
    IN  [k \in 0..5 |->
           LET i == k \div 2
               j == k % 2
               c1 == IF i < 2 THEN i + 1 ELSE 0
               c2 == IF c1 < 2 THEN c1 + 1 ELSE 0
           IN  IF j # 0
               THEN [[center EXCEPT ![c1 + 1] = @ - 1]
                        EXCEPT ![c2 + 1] = @ + (IF split[i + 1] THEN 1 ELSE -1)]
               ELSE [[center EXCEPT ![c1 + 1] = @ + 1]
                        EXCEPT ![c2 + 1] = @ + (IF split[i + 1] THEN -1 ELSE 1)]]

\* lines 379-380: cl[i] *= 2.00001f and the conversion to unsigned short
unitCubeRound(half) == U16(Trunc(half * 200001, 200000))

\* unitCubeCentroids(const short(&)[3], bccTetCentroid(&)[6])
unitCubeCentroids(minimumCorner) ==
    LET cl == unitCubeCentroidLoci(minimumCorner)
    IN  [k \in 0..5 |-> <<unitCubeRound(cl[k][1]), unitCubeRound(cl[k][2]),
                          unitCubeRound(cl[k][3])>>]

(***************************************************************************)
(* Coordinate conversion.  Weights are triples of integers over a scale.   *)
(***************************************************************************)

\* barycentricInverses with each matrix transposed
barycentricInversesTransposed ==
    << <<-1, 1, 0, 1, 0, 1, 1, 0, -1>>,
       <<0, -1, 1, 1, 1, 0, -1, 1, 0>>,
       <<1, 0, -1, 0, 1, 1, 0, -1, 1>>,
       <<1, 1, 0, -1, 0, -1, -1, 0, 1>>,
       <<0, 1, 1, -1, -1, 0, 1, -1, 0>>,
       <<1, 0, 1, 0, -1, -1, 0, 1, -1>> >>

\* lines 24-30: the six inverse matrices, each entry doubled (0.5f -> 1)
barycentricInverses ==
    << <<-1, 1, 1, 1, 0, 0, 0, 1, -1>>,
       <<0, 1, -1, -1, 1, 1, 1, 0, 0>>,
       <<1, 0, 0, 0, 1, -1, -1, 1, 1>>,
       <<1, -1, -1, 1, 0, 0, 0, -1, 1>>,
       <<0, -1, 1, 1, -1, -1, 1, 0, 0>>,
       <<1, 0, 0, 0, -1, 1, 1, -1, -1>> >>

\* Mat3x3f::operator*(const Vec3f&): the nine floats are stored by columns
Mat3x3fTimes(x, v) ==
    [i \in 1..3 |-> x[i] * v[1] + x[i + 3] * v[2] + x[i + 6] * v[3]]

\* barycentricWeightToGridLocus(const bccTetCentroid&, ...): a point over the
\* scale of the weights
barycentricWeightToGridLocus(tetCentroid, barycentricWeight, scale) ==
    LET gridLoci == centroidToNodeLoci(tetCentroid)
        w0 == scale - barycentricWeight[1] - barycentricWeight[2] - barycentricWeight[3]
    IN  [k \in 1..3 |-> gridLoci[0][k] * w0 + gridLoci[1][k] * barycentricWeight[1]
                          + gridLoci[2][k] * barycentricWeight[2]
                          + gridLoci[3][k] * barycentricWeight[3]]

\* lines 272-297 of gridLocusToBarycentricWeight, the branch of a size-1
\* centroid: weights over twice the scale of the point
gridLocusToBarycentricWeight(gridLocus, tetCentroid, scale) ==
    LET hc == centroidHalfAxisSize(tetCentroid).hc
        xyz == [i \in 1..3 |-> S16(tetCentroid[i] \div 2)]
        h1 == (hc + 1) % 3
        B0 == [i \in 1..3 |-> gridLocus[i] - xyz[i] * scale]
        below == AndBit(At(xyz, hc) + At(xyz, h1), 1) # 0
        baryInv == IF below THEN hc ELSE hc + 3
        B == IF below
             THEN [B0 EXCEPT ![h1 + 1] = @ + scale]
             ELSE [[B0 EXCEPT ![hc + 1] = @ - scale] EXCEPT ![h1 + 1] = @ + scale]
    IN  [w |-> Mat3x3fTimes(barycentricInverses[baryInv + 1], B), scale |-> 2 * scale]

(***************************************************************************)
(* The lattice store after construction and after clear(): empty.          *)
(***************************************************************************)
clear ==
    /\ nodeGridLoci = <<>>
    /\ tetNodes = <<>>
    /\ tetCentroids = <<>>
    /\ tetHash = {}
    /\ vertexTets = <<>>
    /\ barycentricWeights = <<>>

(***************************************************************************)
(* The hooks object after construction, with a surface mesh whose          *)
(* triangles all have a material and no physics yet.                       *)
(***************************************************************************)
Triangles == 0..MaxTriangles - 1

NoHookConstraints == [h \in {} |-> 0]

NoHooks ==
    /\ hooks = NoHookConstraints
    /\ hookNow = 0
    /\ triangleMaterial = [t \in Triangles |-> 0]
    /\ deepCutTriangles = FALSE
    /\ solverInitialized = FALSE
    /\ lookups = {}

(***************************************************************************)
(* Centroid algebra applied to every centroid of the bounded lattice.      *)
(***************************************************************************)
Sizes == {1, 2, 4, 8}

MicroCentroids ==
    {tc \in (0..MaxCoord) \X (0..MaxCoord) \X (0..MaxCoord) :
        ValidCentroid(tc) /\ centroidHalfAxisSize(tc).size = 1}

InitAlgebra ==
    /\ op = "input"
    /\ \E c \in MicroCentroids : \E s \in Sizes :
          arg = [micro |-> c, size |-> s, tc |-> Scaled(c, s)]
    /\ out = <<>>
    /\ clear
    /\ NoHooks
    /\ tetSubdivisionLevels = 1

SubtetCentroidsCall ==
    /\ op = "input"
    /\ op' = "subtetCentroids"
    /\ out' = IF subtetCentroidsThrows(arg.tc)
              THEN [error |-> "logic_error"]
              ELSE [error |-> "none", subCentroids |-> subtetCentroids(arg.tc)]
    /\ UNCHANGED <<arg, latticeVars, hookVars>>

\* promotion of child i of the subdivision just made
PromoteSubtet(i) ==
    /\ op = "subtetCentroids"
    /\ out.error = "none"
    /\ out.subCentroids[i] # InvalidCentroid
    /\ op' = "centroidUpOneLevel"
    /\ out' = [child |-> i, tcIn |-> out.subCentroids[i],
               tcUp |-> centroidUpOneLevel(out.subCentroids[i]),
               subCentroids |-> out.subCentroids]
    /\ UNCHANGED <<arg, latticeVars, hookVars>>

FaceAdjacentMicrotetCall(f) ==
    /\ op = "input"
    /\ arg.size = 1
    /\ op' = "faceAdjacentMicrotet"
    /\ out' = [face |-> f, adj |-> faceAdjacentMicrotet(arg.tc, f)]
    /\ UNCHANGED <<arg, latticeVars, hookVars>>

\* the same query from the other side of the face just crossed
CrossBack ==
    /\ op = "faceAdjacentMicrotet"
    /\ out.adj.adjFace # -1
    /\ op' = "crossBack"
    /\ out' = [face |-> out.face, adj |-> out.adj,
               back |-> faceAdjacentMicrotet(out.adj.tcAdj, out.adj.adjFace)]
    /\ UNCHANGED <<arg, latticeVars, hookVars>>

FaceAdjacentCentroidCall(f) ==
    /\ op = "input"
    /\ op' = "faceAdjacentCentroid"
    /\ out' = [face |-> f, adj |-> faceAdjacentCentroid(arg.tc, f)]
    /\ UNCHANGED <<arg, latticeVars, hookVars>>

\* the microtets around node j of the microtet, when the node is in the
\* positive octant
NodeMicroCentroidsCall(j) ==
    /\ op = "input"
    /\ arg.size = 1
    /\ \E node \in {centroidToNodeLoci(arg.tc)[j]} :
          /\ \A k \in 1..3 : node[k] >= 0
          /\ out' = [node |-> node, cntrd |-> nodeMicroCentroids(node)]
    /\ op' = "nodeMicroCentroids"
    /\ UNCHANGED <<arg, latticeVars, hookVars>>

NextAlgebra ==
    \/ SubtetCentroidsCall
    \/ \E i \in 0..7 : PromoteSubtet(i)
    \/ \E f \in 0..3 : FaceAdjacentMicrotetCall(f)
    \/ CrossBack
    \/ \E f \in 0..3 : FaceAdjacentCentroidCall(f)
    \/ \E j \in 0..3 : NodeMicroCentroidsCall(j)

SpecAlgebra == InitAlgebra /\ [][NextAlgebra]_vars

(***************************************************************************)
(* Claims about the centroid algebra (under SpecAlgebra).                  *)
(***************************************************************************)

\* C1: promoting any non-sentinel child of subtetCentroids(c), c of size >= 2,
\* gives c back.
C1_RoundTrip ==
    op = "centroidUpOneLevel" => out.tcUp = arg.tc

\* a core child (index 6) of a size-4 centroid has been promoted
C1_Witness ==
    /\ op = "centroidUpOneLevel"
    /\ arg.size = 4
    /\ out.child = 6
    /\ out.tcUp = arg.tc
    /\ \E j \in 0..7 : out.subCentroids[j] = InvalidCentroid

\* C2: crossing face f of a microtet and crossing back over the face returned
\* leads to the same centroid and the same face.
C2_AdjacencySymmetry ==
    op = "crossBack" => /\ out.back.adjFace = out.face
                        /\ out.back.tcAdj = arg.tc

C2_Witness ==
    /\ op = "crossBack"
    /\ out.face = 3
    /\ out.adj.tcAdj # arg.tc
    /\ out.back.tcAdj = arg.tc

\* C10: faceAdjacentCentroid on the centroid scaled by s in {1,2,4,8} returns
\* the face of faceAdjacentMicrotet and s times its centroid.
C10_MacroIsScaledMicro ==
    op = "faceAdjacentCentroid" =>
        LET m == faceAdjacentMicrotet(arg.micro, out.face)
        IN  /\ out.adj.adjFace = m.adjFace
            /\ m.adjFace # -1 => out.adj.tcAdj = Scaled(m.tcAdj, arg.size)

\* the positions of the three nodes of face f of the tet at tc
FaceLoci(tc, f) == {centroidToNodeLoci(tc)[(f + i) % 4] : i \in 0..2}

\* C11: when faceAdjacentMicrotet(tc, f) is not at the boundary, face f of tc
\* and the returned face of the returned centroid have the same three node
\* positions, and the returned centroid is another one.
C11_SharedFace ==
    (op = "faceAdjacentMicrotet" /\ out.adj.adjFace # -1) =>
        /\ FaceLoci(arg.tc, out.face) = FaceLoci(out.adj.tcAdj, out.adj.adjFace)
        /\ out.adj.tcAdj # arg.tc

\* face 0 of a microtet crossed into a neighbour over a common triangle
C11_Witness ==
    /\ op = "faceAdjacentMicrotet"
    /\ out.face = 0
    /\ out.adj.adjFace # -1
    /\ Cardinality(FaceLoci(arg.tc, out.face)
                      \cap FaceLoci(out.adj.tcAdj, out.adj.adjFace)) = 3

\* The inputs have coordinates far below 2^15 and every operation moves a
\* coordinate by at most four sizes, so a coordinate of 2^15 or more in a
\* result other than the sentinel was obtained by wrapping below 0.
WrappedBelowZero(tc) == tc # InvalidCentroid /\ \E a \in 1..3 : tc[a] >= 32768

\* C12: no centroid returned by faceAdjacentMicrotet, faceAdjacentCentroid,
\* subtetCentroids, centroidUpOneLevel or nodeMicroCentroids has a coordinate
\* that wrapped below 0; such a result is reported by face -1 or the sentinel.
C12_NeverWraps ==
    /\ op = "nodeMicroCentroids" => \A i \in 0..23 : ~WrappedBelowZero(out.cntrd[i])
    /\ op \in {"faceAdjacentMicrotet", "faceAdjacentCentroid"} =>
          (out.adj.adjFace # -1 => ~WrappedBelowZero(out.adj.tcAdj))
    /\ (op = "subtetCentroids" /\ out.error = "none") =>
          \A i \in 0..7 : ~WrappedBelowZero(out.subCentroids[i])
    /\ op = "centroidUpOneLevel" => ~WrappedBelowZero(out.tcUp)

\* child i of the centroid in integer arithmetic: the subdivision is the same
\* four sizes further along every axis, where no coordinate goes below 0
ExactChild(i) ==
    LET T == 4 * arg.size
        e == subtetCentroids(<<arg.tc[1] + T, arg.tc[2] + T, arg.tc[3] + T>>)[i]
    IN  <<e[1] - T, e[2] - T, e[3] - T>>

\* C13: subtetCentroids raises the logic error on a size-1 centroid; on a
\* larger one it writes 8 entries, and entry i is the sentinel exactly when
\* child i has a negative coordinate on a secondary axis, else it is child i.
C13_SubtetCentroids ==
    op = "subtetCentroids" =>
        IF arg.size < 2 THEN out.error = "logic_error"
        ELSE /\ out.error = "none"
             /\ DOMAIN out.subCentroids = 0..7
             /\ \A i \in 0..7 :
                   LET e == ExactChild(i)
                       hc == centroidHalfAxisSize(arg.tc).hc
                   IN  /\ out.subCentroids[i] = InvalidCentroid
                             <=> \E a \in Axes \ {hc} : At(e, a) < 0
                       /\ out.subCentroids[i] # InvalidCentroid => out.subCentroids[i] = e

\* a size-2 centroid at the boundary: some children are sentinels, the
\* others are the children themselves
C13_Witness ==
    /\ op = "subtetCentroids"
    /\ arg.size = 2
    /\ out.error = "none"
    /\ \E i \in 0..7 : out.subCentroids[i] = InvalidCentroid
    /\ \E i \in 0..7 : out.subCentroids[i] # InvalidCentroid /\ out.subCentroids[i] = ExactChild(i)

\* C20: for a lattice node with all coordinates >= 1, nodeMicroCentroids
\* returns 24 pairwise distinct valid size-1 centroids and the node is one of
\* the four nodes of each of them.
C20_NodeMicroCentroids ==
    (op = "nodeMicroCentroids" /\ \A k \in 1..3 : out.node[k] >= 1) =>
        /\ \A i, j \in 0..23 : i # j => out.cntrd[i] # out.cntrd[j]
        /\ \A i \in 0..23 :
              /\ ValidCentroid(out.cntrd[i])
              /\ centroidHalfAxisSize(out.cntrd[i]).size = 1
              /\ \E j \in 0..3 : centroidToNodeLoci(out.cntrd[i])[j] = out.node

\* the 24 microtets around the node (1, 1, 1)
C20_Witness ==
    /\ op = "nodeMicroCentroids"
    /\ out.node = <<1, 1, 1>>
    /\ Cardinality({out.cntrd[i] : i \in 0..23}) = 24
    /\ \A i \in 0..23 : \E j \in 0..3 : centroidToNodeLoci(out.cntrd[i])[j] = out.node

(***************************************************************************)
(* Point location and coordinate conversion applied to the points of a     *)
(* bounded grid.                                                           *)
(***************************************************************************)
Corners == (0..MaxCube) \X (0..MaxCube) \X (0..MaxCube)

\* the points of the half-open unit cubes: corner + k / GridDenom, k < GridDenom
LocusInputs ==
    {[kind |-> "locus", scale |-> GridDenom,
      p |-> <<c[1] * GridDenom + f[1], c[2] * GridDenom + f[2], c[3] * GridDenom + f[3]>>] :
        c \in Corners, f \in (0..GridDenom - 1) \X (0..GridDenom - 1) \X (0..GridDenom - 1)}
    \cup {[kind |-> "locus", scale |-> 10, p |-> <<9, 1, 1>>]}

\* a unit cube and a point of the closed cube
CubeInputs ==
    {[kind |-> "cube", scale |-> GridDenom, minimumCorner |-> c,
      p |-> <<c[1] * GridDenom + f[1], c[2] * GridDenom + f[2], c[3] * GridDenom + f[3]>>] :
        c \in Corners, f \in (0..GridDenom) \X (0..GridDenom) \X (0..GridDenom)}

\* a microtet and weights w_i >= 0 with sum <= 1
BaryInputs ==
    {[kind |-> "bary", scale |-> BaryScale, tetCentroid |-> c, barycentricWeight |-> w] :
        c \in MicroCentroids,
        w \in {v \in (0..BaryScale) \X (0..BaryScale) \X (0..BaryScale) :
                  v[1] + v[2] + v[3] <= BaryScale}}

InitLocus ==
    /\ op = "input"
    /\ arg \in LocusInputs \cup CubeInputs \cup BaryInputs
    /\ out = <<>>
    /\ clear
    /\ NoHooks
    /\ tetSubdivisionLevels = 1

GridLocusToLowestTetCentroidCall ==
    /\ op = "input"
    /\ arg.kind = "locus"
    /\ op' = "gridLocusToLowestTetCentroid"
    /\ out' = [tetCentroid |-> gridLocusToLowestTetCentroid(arg.p, arg.scale)]
    /\ UNCHANGED <<arg, latticeVars, hookVars>>

\* the containment test on the centroid just located
InsideLocatedTet ==
    /\ op = "gridLocusToLowestTetCentroid"
    /\ op' = "insideTet"
    /\ out' = [tetCentroid |-> out.tetCentroid,
               inside |-> insideTet(out.tetCentroid, arg.p, arg.scale)]
    /\ UNCHANGED <<arg, latticeVars, hookVars>>

\* the node positions of the centroid just located
LocatedTetNodeLoci ==
    /\ op = "gridLocusToLowestTetCentroid"
    /\ op' = "centroidToNodeLoci"
    /\ out' = [tetCentroid |-> out.tetCentroid,
               gridLoci |-> centroidToNodeLoci(out.tetCentroid)]
    /\ UNCHANGED <<arg, latticeVars, hookVars>>

UnitCubeCentroidsCall ==
    /\ op = "input"
    /\ arg.kind = "cube"
    /\ op' = "unitCubeCentroids"
    /\ out' = [cntrd |-> unitCubeCentroids(arg.minimumCorner)]
    /\ UNCHANGED <<arg, latticeVars, hookVars>>

\* the containment test on each of the six centroids of the cube
InsideCubeTets ==
    /\ op = "unitCubeCentroids"
    /\ op' = "insideCubeTets"
    /\ out' = [cntrd |-> out.cntrd,
               inside |-> [k \in 0..5 |-> insideTet(out.cntrd[k], arg.p, arg.scale)]]
    /\ UNCHANGED <<arg, latticeVars, hookVars>>

BarycentricWeightToGridLocusCall ==
    /\ op = "input"
    /\ arg.kind = "bary"
    /\ op' = "barycentricWeightToGridLocus"
    /\ out' = [gridLocus |-> barycentricWeightToGridLocus(arg.tetCentroid,
                                  arg.barycentricWeight, arg.scale)]
    /\ UNCHANGED <<arg, latticeVars, hookVars>>

\* back from the point just computed to weights in the same tet
GridLocusToBarycentricWeightCall ==
    /\ op = "barycentricWeightToGridLocus"
    /\ op' = "gridLocusToBarycentricWeight"
    /\ out' = [gridLocus |-> out.gridLocus,
               barycentricWeight |->
                   gridLocusToBarycentricWeight(out.gridLocus, arg.tetCentroid, arg.scale)]
    /\ UNCHANGED <<arg, latticeVars, hookVars>>

\* the sizes of the tets given to insideTet
InsideSizes == {1, 2, 4}

\* the Vec3f overload on centroid k of the cube and on the point, both
\* magnified by size
InsideScaledTet(k, size) ==
    /\ op = "unitCubeCentroids"
    /\ op' = "insideScaledTet"
    /\ \E tc \in {Scaled(out.cntrd[k], size)}, p \in {Scaled(arg.p, size)} :
          out' = [tc |-> tc, size |-> size, p |-> p, inside |-> insideTet(tc, p, arg.scale)]
    /\ UNCHANGED <<arg, latticeVars, hookVars>>

\* the short overload on the same centroid, when the point is a lattice point
InsideTetShortCall ==
    /\ op = "insideScaledTet"
    /\ \A k \in 1..3 : out.p[k] % arg.scale = 0
    /\ op' = "insideTetShort"
    /\ \E nodeLocus \in {<<out.p[1] \div arg.scale, out.p[2] \div arg.scale,
                           out.p[3] \div arg.scale>>} :
          out' = [tc |-> out.tc, size |-> out.size, p |-> out.p, inside |-> out.inside,
                  nodeLocus |-> nodeLocus, insideShort |-> insideTetShort(out.tc, nodeLocus)]
    /\ UNCHANGED <<arg, latticeVars, hookVars>>

NextLocus ==
    \/ GridLocusToLowestTetCentroidCall
    \/ InsideLocatedTet
    \/ LocatedTetNodeLoci
    \/ UnitCubeCentroidsCall
    \/ InsideCubeTets
    \/ BarycentricWeightToGridLocusCall
    \/ GridLocusToBarycentricWeightCall

SpecLocus == InitLocus /\ [][NextLocus]_vars

(***************************************************************************)
(* The two overloads of insideTet on the tets of the unit cubes, magnified *)
(* to each size, and on the points of the cubes.                           *)
(***************************************************************************)
InitInside ==
    /\ op = "input"
    /\ arg \in CubeInputs
    /\ out = <<>>
    /\ clear
    /\ NoHooks
    /\ tetSubdivisionLevels = 1

NextInside ==
    \/ UnitCubeCentroidsCall
    \/ \E k \in 0..5, size \in InsideSizes : InsideScaledTet(k, size)
    \/ InsideTetShortCall

SpecInside == InitInside /\ [][NextInside]_vars

(***************************************************************************)
(* Geometry of a tetrahedron given by its four node positions, used to     *)
(* state the claims: exact signed volumes.                                 *)
(***************************************************************************)
Det3(a, b, c) ==
    a[1] * (b[2] * c[3] - b[3] * c[2]) - a[2] * (b[1] * c[3] - b[3] * c[1])
        + a[3] * (b[1] * c[2] - b[2] * c[1])

\* the four barycentric weights of p / scale in the tet, each multiplied by
\* the same positive number
TetWeights(nodes, p, scale) ==
    LET e == [i \in 1..3 |-> [k \in 1..3 |-> nodes[i][k] - nodes[0][k]]]
        r == [k \in 1..3 |-> p[k] - scale * nodes[0][k]]
        det == Det3(e[1], e[2], e[3])
        sgn == IF det < 0 THEN -1 ELSE 1
        w1 == sgn * Det3(r, e[2], e[3])
        w2 == sgn * Det3(e[1], r, e[3])
        w3 == sgn * Det3(e[1], e[2], r)
    IN  <<sgn * det * scale - w1 - w2 - w3, w1, w2, w3>>

\* p / scale lies in the closed tetrahedron
InClosedTet(nodes, p, scale) == \A i \in 1..4 : TetWeights(nodes, p, scale)[i] >= 0

(***************************************************************************)
(* Claims about point location and conversion (under SpecLocus).           *)
(***************************************************************************)

\* C3: the centroid located for a point contains the point by insideTet,
\* also when fractional offsets are equal.
C3_LocatedTetContainsPoint ==
    op = "insideTet" => out.inside

\* C4: every point of a unit cube is inside at least one of the cube's six
\* centroids, and inside exactly one when it is interior to the cube and does
\* not lie in two of the six tetrahedra (on a face they share).
C4_InsideCount ==
    Cardinality({k \in 0..5 : out.inside[k]})

C4_InTwoTets ==
    \E j, k \in 0..5 :
        /\ j # k
        /\ InClosedTet(centroidToNodeLoci(out.cntrd[j]), arg.p, arg.scale)
        /\ InClosedTet(centroidToNodeLoci(out.cntrd[k]), arg.p, arg.scale)

C4_Interior ==
    \A i \in 1..3 : /\ arg.p[i] > arg.minimumCorner[i] * arg.scale
                     /\ arg.p[i] < (arg.minimumCorner[i] + 1) * arg.scale

C4_PartitionCoverage ==
    op = "insideCubeTets" =>
        /\ C4_InsideCount >= 1
        /\ (C4_Interior /\ ~C4_InTwoTets) => C4_InsideCount = 1

\* an interior point off the shared faces, claimed by exactly one centroid,
\* in a cube of mixed parity
C4_Witness ==
    /\ op = "insideCubeTets"
    /\ arg.minimumCorner = <<1, 0, 1>>
    /\ C4_Interior
    /\ ~C4_InTwoTets
    /\ C4_InsideCount = 1

\* C5: the centroid located for (0.9, 0.1, 0.1) has the lattice position
\* (1,0,0) among its four node positions.
C5_NodeAtCubeCorner ==
    (op = "centroidToNodeLoci" /\ arg.scale = 10 /\ arg.p = <<9, 1, 1>>) =>
        \E j \in 0..3 : out.gridLoci[j] = <<1, 0, 0>>

\* C5 as amended: the centroid located is (2,0,1), whose node positions are
\* (0,0,0), (2,0,0), (1,1,1), (1,-1,1): the two ends of the lattice edge
\* along x through the point's cube, not the cube corner (1,0,0), which is
\* the midpoint of that edge; the tetrahedron contains the point.
C5_NodesOfLocatedTet ==
    (op = "centroidToNodeLoci" /\ arg.scale = 10 /\ arg.p = <<9, 1, 1>>) =>
        /\ out.tetCentroid = <<2, 0, 1>>
        /\ out.gridLoci[0] = <<0, 0, 0>>
        /\ out.gridLoci[1] = <<2, 0, 0>>
        /\ out.gridLoci[2] = <<1, 1, 1>>
        /\ out.gridLoci[3] = <<1, -1, 1>>
        /\ InClosedTet(out.gridLoci, arg.p, arg.scale)
        /\ insideTet(out.tetCentroid, arg.p, arg.scale)

C5_Witness ==
    /\ op = "centroidToNodeLoci"
    /\ arg.scale = 10
    /\ arg.p = <<9, 1, 1>>
    /\ out.tetCentroid = <<2, 0, 1>>

\* C7: converting weights to a point of a size-1 tet and back gives the
\* weights again.
C7_BarycentricRoundTrip ==
    op = "gridLocusToBarycentricWeight" =>
        /\ \A i \in 1..3 :
              out.barycentricWeight.w[i] * arg.scale
                  = arg.barycentricWeight[i] * out.barycentricWeight.scale
        /\ \A j \in 0..3 :
              out.gridLocus = [k \in 1..3 |->
                                 arg.scale * centroidToNodeLoci(arg.tetCentroid)[j][k]]
                  => out.barycentricWeight.w =
                         [i \in 1..3 |-> IF i = j THEN out.barycentricWeight.scale ELSE 0]

\* the weights of a point strictly inside a tet came back
C7_Witness ==
    /\ op = "gridLocusToBarycentricWeight"
    /\ arg.barycentricWeight = <<1, 1, 1>>
    /\ arg.tetCentroid = <<3, 4, 2>>
    /\ out.barycentricWeight.w = <<2, 2, 2>>

(***************************************************************************)
(* Claim about insideTet (under SpecInside).                               *)
(***************************************************************************)

\* C18: for every valid centroid of size 1, 2 and 4 both overloads of
\* insideTet are true exactly for the points of the closed tetrahedron of
\* centroidToNodeLoci, so on lattice points they agree.
C18_InsideTetExact ==
    /\ op \in {"insideScaledTet", "insideTetShort"} =>
          (out.inside <=> InClosedTet(centroidToNodeLoci(out.tc), out.p, arg.scale))
    /\ op = "insideTetShort" =>
          /\ out.insideShort <=> InClosedTet(centroidToNodeLoci(out.tc), out.nodeLocus, 1)
          /\ out.insideShort = out.inside

(***************************************************************************)
(* The lattice store with virtual noding.  Tets and nodes are numbered     *)
(* from 0 as in the code; tetHash is the set of (centroid, tet) entries of *)
(* the multimap, whose order within one key is unspecified.                *)
(***************************************************************************)
tetNodesOf(tet) == tetNodes[tet + 1]

tetCentroid(tet) == tetCentroids[tet + 1]

tetHashEqualRange(tc) == {e[2] : e \in {h \in tetHash : h[1] = tc}}

\* a microtet of the unit cube at the origin, with one face on the boundary
\* of the positive octant
StoreSeed == unitCubeCentroids(<<0, 0, 0>>)[5]

\* the seed and the microtets across its other three faces
StoreCentroids ==
    {StoreSeed} \cup {faceAdjacentMicrotet(StoreSeed, face).tcAdj :
                         face \in {f \in 0..3 : faceAdjacentMicrotet(StoreSeed, f).adjFace >= 0}}

\* the collections of the store as one value
Lattice ==
    [nodeGridLoci |-> nodeGridLoci, tetNodes |-> tetNodes, tetCentroids |-> tetCentroids,
     tetHash |-> tetHash, vertexTets |-> vertexTets,
     barycentricWeights |-> barycentricWeights]

EmptyLattice ==
    [nodeGridLoci |-> <<>>, tetNodes |-> <<>>, tetCentroids |-> <<>>,
     tetHash |-> {}, vertexTets |-> <<>>, barycentricWeights |-> <<>>]

\* the store is st
LatticeIs(st) ==
    /\ nodeGridLoci = st.nodeGridLoci
    /\ tetNodes = st.tetNodes
    /\ tetCentroids = st.tetCentroids
    /\ tetHash = st.tetHash
    /\ vertexTets = st.vertexTets
    /\ barycentricWeights = st.barycentricWeights

\* the store becomes st
SetLattice(st) ==
    /\ nodeGridLoci' = st.nodeGridLoci
    /\ tetNodes' = st.tetNodes
    /\ tetCentroids' = st.tetCentroids
    /\ tetHash' = st.tetHash
    /\ vertexTets' = st.vertexTets
    /\ barycentricWeights' = st.barycentricWeights

nodesAt(st, locus) == {n \in 0..Len(st.nodeGridLoci) - 1 : st.nodeGridLoci[n + 1] = locus}

\* a tet appended at centroid tc: the nodes of the positions in fresh are
\* new nodes appended in position order, the others are given by reuse
appendTet(st, tc, fresh, reuse) ==
    LET gridLoci == centroidToNodeLoci(tc)
        before(j) == Cardinality({k \in fresh : k < j})
        tn == [j \in 1..4 |-> IF (j - 1) \in fresh
                                THEN Len(st.nodeGridLoci) + before(j - 1)
                                ELSE reuse[j]]
        newLoci == [m \in 1..Cardinality(fresh) |->
                       gridLoci[CHOOSE j \in fresh : before(j) = m - 1]]
    IN  [st EXCEPT !.nodeGridLoci = @ \o newLoci,
                   !.tetNodes = Append(@, tn),
                   !.tetCentroids = Append(@, tc),
                   !.tetHash = @ \cup {<<tc, Len(st.tetNodes)>>}]

\* a tet of the uncut lattice: nodes are shared by position
addTet(st, tc) ==
    LET gridLoci == centroidToNodeLoci(tc)
        fresh == {j \in 0..3 : nodesAt(st, gridLoci[j]) = {}}
        reuse == [j \in 1..4 |->
                    IF (j - 1) \in fresh THEN -1
                    ELSE CHOOSE n \in nodesAt(st, gridLoci[j - 1]) :
                             \A m \in nodesAt(st, gridLoci[j - 1]) : n <= m]
    IN  appendTet(st, tc, fresh, reuse)

AddTet(tc) ==
    /\ op = "store"
    /\ Len(tetNodes) < MaxTets
    /\ tetHashEqualRange(tc) = {}
    /\ SetLattice(addTet(Lattice, tc))
    /\ UNCHANGED <<callVars, tetSubdivisionLevels, hookVars>>

\* a cut through tet: a second tet at the same centroid, with new nodes at
\* the positions in fresh (all four: disjoint node sets)
DuplicateTet(tet, fresh) ==
    /\ op = "store"
    /\ Len(tetNodes) < MaxTets
    /\ fresh # {}
    /\ SetLattice(appendTet(Lattice, tetCentroid(tet), fresh, tetNodesOf(tet)))
    /\ UNCHANGED <<callVars, tetSubdivisionLevels, hookVars>>

\* faceNodesMatch with the loop stopping one node early
faceNodesMatchTwo(tn, adjFace, faceNodes) ==
    \A i \in 0..1 : tn[((adjFace + i) % 4) + 1] \in faceNodes

\* lines 431-436: the three nodes of the candidate's face are all found
faceNodesMatch(tn, adjFace, faceNodes) ==
    \A i \in 0..2 : tn[((adjFace + i) % 4) + 1] \in faceNodes

faceAdjacentMicrotets(tet, face) ==
    LET adj == faceAdjacentMicrotet(tetCentroid(tet), face)
        tn == tetNodesOf(tet)
        faceNodes == {tn[((face + i) % 4) + 1] : i \in 0..2}
    IN  [adjFace |-> adj.adjFace,
         adjTets |-> {t \in tetHashEqualRange(adj.tcAdj) :
                         faceNodesMatch(tetNodesOf(t), adj.adjFace, faceNodes)}]

InitStore ==
    /\ op = "store"
    /\ arg = <<>>
    /\ out = <<>>
    /\ clear
    /\ NoHooks
    /\ tetSubdivisionLevels = 1

FaceAdjacentMicrotetsCall(tet, face) ==
    /\ op = "store"
    /\ op' = "faceAdjacentMicrotets"
    /\ arg' = [tet |-> tet, face |-> face]
    /\ out' = faceAdjacentMicrotets(tet, face)
    /\ UNCHANGED <<latticeVars, hookVars>>

NextStore ==
    \/ \E tc \in StoreCentroids : AddTet(tc)
    \/ \E tet \in 0..Len(tetNodes) - 1, fresh \in SUBSET (0..3) : DuplicateTet(tet, fresh)
    \/ \E tet \in 0..Len(tetNodes) - 1, face \in 0..3 : FaceAdjacentMicrotetsCall(tet, face)

SpecStore == InitStore /\ [][NextStore]_vars

(***************************************************************************)
(* Claims about the store (under SpecStore).                               *)
(***************************************************************************)
NodeSet(tet) == {tetNodesOf(tet)[j] : j \in 1..4}

QueryFaceNodes == {tetNodesOf(arg.tet)[((arg.face + i) % 4) + 1] : i \in 0..2}

\* C6: faceAdjacentMicrotets(tet, face) returns exactly the tets mapped at the
\* face-adjacent centroid whose nodes at positions (adjFace + i) mod 4,
\* i in 0..2, are all query-face nodes; a returned tet has all three
\* query-face nodes, and a duplicate with a disjoint node set is not returned.
C6_FaceAdjacentMicrotets ==
    op = "faceAdjacentMicrotets" =>
        LET adj == faceAdjacentMicrotet(tetCentroid(arg.tet), arg.face)
            mapped == {t \in 0..Len(tetNodes) - 1 : tetCentroid(t) = adj.tcAdj}
            adjFaceNodes(t) == {tetNodesOf(t)[((adj.adjFace + i) % 4) + 1] : i \in 0..2}
        IN  /\ out.adjFace = adj.adjFace
            /\ out.adjTets = {t \in mapped : adjFaceNodes(t) \subseteq QueryFaceNodes}
            /\ \A t \in out.adjTets : QueryFaceNodes \subseteq NodeSet(t)
            /\ \A t \in mapped : NodeSet(t) \cap NodeSet(arg.tet) = {} => t \notin out.adjTets

\* the adjacent centroid maps to two tets with disjoint node sets; the query
\* returns the one across the face and not its duplicate
C6_Witness ==
    /\ op = "faceAdjacentMicrotets"
    /\ out.adjFace >= 0
    /\ \E t, d \in 0..Len(tetNodes) - 1 :
          /\ tetCentroid(t) = tetCentroid(d)
          /\ NodeSet(t) \cap NodeSet(d) = {}
          /\ out.adjTets = {t}
          /\ tetCentroid(t) # tetCentroid(arg.tet)

(***************************************************************************)
(* Location of surface points in a multiresolution lattice: the promotion  *)
(* loops of parametricTriangleTet, parametricEdgeTet and                   *)
(* vertexSolidLinePath, one loop iteration per step.  The local variables  *)
(* of the call in progress are the fields of out.                          *)
(***************************************************************************)

\* the centroids that may be populated: a size-4 tet, two of its size-2
\* subtets, two microtets of the first and one of the second
PromoteCentroids ==
    << <<0, 8, 4>>, <<0, 4, 2>>, <<2, 8, 4>>, <<0, 2, 1>>, <<0, 3, 2>>, <<1, 8, 6>> >>

\* the ancestors of tc up to n levels above it
RECURSIVE AncestorsOf(_, _)
AncestorsOf(tc, n) ==
    IF n = 0 THEN {}
    ELSE UNION {{up} \cup AncestorsOf(up, n - 1) : up \in {centroidUpOneLevel(tc)}}

RECURSIVE LevelOfSize(_)
LevelOfSize(size) == IF size <= 1 THEN 1 ELSE 1 + LevelOfSize(size \div 2)

LevelOf(tc) == LevelOfSize(centroidHalfAxisSize(tc).size)

\* every vertex sits at these weights of nodes 1..3 of its tet, in eighths
VertexScale == 8

VertexWeight == <<1, 2, 4>>

\* parameters of a point of a triangle or of an edge, in halves
ParamScale == 2

embedVertex(st, tet) ==
    [st EXCEPT !.vertexTets = Append(@, tet),
               !.barycentricWeights = Append(@, VertexWeight)]

\* the lattice of the tets at the centroids cs, one vertex embedded in each
RECURSIVE latticeOf(_)
latticeOf(cs) ==
    IF cs = <<>> THEN EmptyLattice
    ELSE CHOOSE st \in {embedVertex(addTet(prev, cs[Len(cs)]), Len(cs) - 1) :
                           prev \in {latticeOf(SubSeq(cs, 1, Len(cs) - 1))}} : TRUE

RECURSIVE centroidsOf(_)
centroidsOf(P) ==
    IF P = {} THEN <<>>
    ELSE LET m == CHOOSE k \in P : \A j \in P : j <= k
         IN  Append(centroidsOf(P \ {m}), PromoteCentroids[m])

\* tets partition the solid: no tet is populated together with an ancestor
PromoteStores ==
    {P \in SUBSET (1..Len(PromoteCentroids)) :
        /\ P # {}
        /\ Cardinality(P) <= MaxTets
        /\ \A i, j \in P :
              PromoteCentroids[j] \notin
                  AncestorsOf(PromoteCentroids[i], LevelOf(PromoteCentroids[j]) - 1)}

InitPromote ==
    /\ op = "idle"
    /\ NoHooks
    /\ arg = <<>>
    /\ out = <<>>
    /\ \E P \in PromoteStores :
          /\ \E st \in {latticeOf(centroidsOf(P))} : LatticeIs(st)
          /\ tetSubdivisionLevels \in 1..MaxSubdivisionLevels
          /\ \A i \in P : LevelOf(PromoteCentroids[i]) <= tetSubdivisionLevels

\* vertexGridLocus(const int, Vec3f&): a point over VertexScale
vertexGridLocus(vertex) ==
    LET tn == tetNodesOf(vertexTets[vertex + 1])
        bw == barycentricWeights[vertex + 1]
        loc(j) == nodeGridLoci[tn[j] + 1]
    IN  [k \in 1..3 |-> loc(1)[k] * (VertexScale - bw[1] - bw[2] - bw[3])
                          + loc(2)[k] * bw[1] + loc(3)[k] * bw[2] + loc(4)[k] * bw[3]]

\* line 1070: a point over VertexScale * ParamScale
triangleGridLocus(tr, uv) ==
    LET tV == [i \in 1..3 |-> vertexGridLocus(tr[i])]
    IN  [k \in 1..3 |-> tV[1][k] * (ParamScale - uv[1] - uv[2])
                          + tV[2][k] * uv[1] + tV[3][k] * uv[2]]

\* line 1015: a point over VertexScale * ParamScale
edgeGridLocus(vertex0, vertex1, param) ==
    LET tV0 == vertexGridLocus(vertex0)
        tV1 == vertexGridLocus(vertex1)
    IN  [k \in 1..3 |-> tV0[k] * (ParamScale - param) + tV1[k] * param]

Vertices == 0..Len(vertexTets) - 1

\* line 1199: the assertion of centroidUpOneLevel on its argument
upOneLevelAssertion(tcIn) ==
    LET d == centroidHalfAxisSize(tcIn)
        c1 == (d.hc + 1) % 3
        c2 == (d.hc + 2) % 3
    IN  AndBit(At(tcIn, c1), 2 * d.size) # AndBit(At(tcIn, c2), 2 * d.size)

\* lines 1026, 1080: if (level > 16)
PromoteLimit == 16

\* the lookup inside the loop left out
promoteLookupStale(tC) == {}

\* lines 1028, 1082: pr = _tetHash.equal_range(tC)
promoteLookup(tC) == tetHashEqualRange(tC)

LoopStart(gridLocus, scale) ==
    LET tC == gridLocusToLowestTetCentroid(gridLocus, scale)
    IN  [pc |-> "loop", gridLocus |-> gridLocus, scale |-> scale, tC |-> tC,
         level |-> 1, promotions |-> 0, pr |-> tetHashEqualRange(tC), result |-> -1,
         paths |-> <<>>, walk |-> [at |-> "none"]]

ParametricTriangleTetCall(tr, uv) ==
    /\ op = "idle"
    /\ op' = "parametricTriangleTet"
    /\ arg' = [tr |-> tr, uv |-> uv]
    /\ out' = LoopStart(triangleGridLocus(tr, uv), VertexScale * ParamScale)
    /\ UNCHANGED <<latticeVars, hookVars>>

ParametricEdgeTetCall(vertex0, vertex1, param) ==
    /\ op = "idle"
    /\ op' = "parametricEdgeTet"
    /\ arg' = [tr |-> <<vertex0, vertex1>>, param |-> param]
    /\ out' = LoopStart(edgeGridLocus(vertex0, vertex1, param), VertexScale * ParamScale)
    /\ UNCHANGED <<latticeVars, hookVars>>

\* lines 1023-1029 and 1077-1083: one iteration of while (pr.first == pr.second).
\* A build that keeps assertions stops in centroidUpOneLevel when its
\* assertion fails.
ParametricPromote ==
    /\ op \in {"parametricTriangleTet", "parametricEdgeTet"}
    /\ out.pc = "loop"
    /\ out.pr = {}
    /\ \/ /\ ~upOneLevelAssertion(out.tC)
          /\ out' = [out EXCEPT !.pc = "assert"]
       \/ LET tC == centroidUpOneLevel(out.tC)
              level == out.level + 1
          IN  out' = IF level > PromoteLimit
                     THEN [out EXCEPT !.tC = tC, !.level = level,
                                      !.promotions = @ + 1, !.pc = "logic_error"]
                     ELSE [out EXCEPT !.tC = tC, !.level = level,
                                      !.promotions = @ + 1, !.pr = promoteLookup(tC)]
    /\ UNCHANGED <<op, arg, latticeVars, hookVars>>

\* line 1104: the nodes of a tet as a set
lnodes(tet) == {tetNodesOf(tet)[j] : j \in 1..4}

\* lines 1084-1087 and 1030-1033: the return of an upper level tet
upperLevelReturn(pr) ==
    {[pc |-> "done", result |-> t] : t \in pr}
        \cup (IF Cardinality(pr) # 1 THEN {[pc |-> "assert", result |-> -1]} ELSE {})

\* the choice with the candidates sharing a node tried before the tets of
\* the vertices
parametricTriangleTetLevel1SharingFirst(tr, tC, pr) ==
    LET hits == {i \in 1..3 : tetCentroid(vertexTets[tr[i] + 1]) = tC}
        sharing == {t \in pr : \E i \in 1..3 :
                       lnodes(t) \cap lnodes(vertexTets[tr[i] + 1]) # {}}
    IN  IF Cardinality(pr) >= 2 /\ sharing # {}
        THEN {[pc |-> "done", result |-> t] : t \in sharing}
        ELSE IF hits # {}
        THEN {[pc |-> "done",
               result |-> vertexTets[tr[CHOOSE i \in hits : \A j \in hits : i <= j] + 1]]}
        ELSE IF Cardinality(pr) < 2 THEN {[pc |-> "done", result |-> t] : t \in pr}
        ELSE {[pc |-> "vertexSolidLinePath", result |-> -1]}

\* lines 1088-1121: the choice among the tets at a level 1 centroid.  The
\* candidates are visited in the unspecified order of the multimap.
parametricTriangleTetLevel1(tr, tC, pr) ==
    LET hits == {i \in 1..3 : tetCentroid(vertexTets[tr[i] + 1]) = tC}
        sharing == {t \in pr : \E i \in 1..3 :
                       lnodes(t) \cap lnodes(vertexTets[tr[i] + 1]) # {}}
    IN  IF hits # {}
        THEN {[pc |-> "done",
               result |-> vertexTets[tr[CHOOSE i \in hits : \A j \in hits : i <= j] + 1]]}
        ELSE IF Cardinality(pr) < 2 THEN {[pc |-> "done", result |-> t] : t \in pr}
        ELSE IF sharing # {} THEN {[pc |-> "done", result |-> t] : t \in sharing}
        ELSE {[pc |-> "vertexSolidLinePath", result |-> -1]}

\* lines 1034-1061
parametricEdgeTetLevel1(tr, tC, pr) ==
    IF tetCentroid(vertexTets[tr[1] + 1]) = tC
    THEN {[pc |-> "done", result |-> vertexTets[tr[1] + 1]]}
    ELSE IF tetCentroid(vertexTets[tr[2] + 1]) = tC
    THEN {[pc |-> "done", result |-> vertexTets[tr[2] + 1]]}
    ELSE IF Cardinality(pr) < 2 THEN {[pc |-> "done", result |-> t] : t \in pr}
    ELSE {[pc |-> "assert", result |-> -1], [pc |-> "done", result |-> -1]}

\* the loop ends with a populated centroid
ParametricFound ==
    /\ op \in {"parametricTriangleTet", "parametricEdgeTet"}
    /\ out.pc = "loop"
    /\ out.pr # {}
    /\ \E o \in (IF out.level > 1 THEN upperLevelReturn(out.pr)
                   ELSE IF op = "parametricTriangleTet"
                   THEN parametricTriangleTetLevel1(arg.tr, out.tC, out.pr)
                   ELSE parametricEdgeTetLevel1(arg.tr, out.tC, out.pr)) :
          out' = [out EXCEPT !.pc = o.pc, !.result = o.result]
    /\ UNCHANGED <<op, arg, latticeVars, hookVars>>

\* a point of the tet at centroid tc, populated or not, over VertexScale
targetIn(tc) ==
    LET loc == centroidToNodeLoci(tc)
    IN  [k \in 1..3 |->
           loc[0][k] * (VertexScale - VertexWeight[1] - VertexWeight[2] - VertexWeight[3])
               + loc[1][k] * VertexWeight[1] + loc[2][k] * VertexWeight[2]
               + loc[3][k] * VertexWeight[3]]

PromoteTargets == {targetIn(PromoteCentroids[i]) : i \in 1..Len(PromoteCentroids)}

\* lines 687-690
VertexSolidLinePathCall(vertex, materialTarget) ==
    /\ op = "idle"
    /\ op' = "vertexSolidLinePath"
    /\ arg' = [vertex |-> vertex, materialTarget |-> materialTarget]
    /\ out' = LET tc == gridLocusToLowestTetCentroid(materialTarget, VertexScale)
              IN  [pc |-> "loop", gridLocus |-> materialTarget, scale |-> VertexScale,
                   tC |-> tc, level |-> 1, promotions |-> 0,
                   pr |-> tetHashEqualRange(tc), result |-> -1,
                   paths |-> <<>>, walk |-> [at |-> "none"]]
    /\ UNCHANGED <<latticeVars, hookVars>>

\* lines 691-696: one iteration of while (targetTets.first == targetTets.second);
\* targetTets (pr) is not looked up again
VertexSolidLinePathPromote ==
    /\ op = "vertexSolidLinePath"
    /\ out.pc = "loop"
    /\ out.pr = {}
    /\ \/ /\ ~upOneLevelAssertion(out.tC)
          /\ out' = [out EXCEPT !.pc = "assert"]
       \/ LET tc == centroidUpOneLevel(out.tC)
              targetSize == out.level + 1
          IN  out' = IF targetSize > tetSubdivisionLevels
                     THEN [out EXCEPT !.tC = tc, !.level = targetSize,
                                      !.promotions = @ + 1, !.pc = "logic_error"]
                     ELSE [out EXCEPT !.tC = tc, !.level = targetSize,
                                      !.promotions = @ + 1]
    /\ UNCHANGED <<op, arg, latticeVars, hookVars>>

\* lines 697-700: one tet at the target centroid is the result; several
\* start the walk from the vertex
VertexSolidLinePathFound ==
    /\ op = "vertexSolidLinePath"
    /\ out.pc = "loop"
    /\ out.pr # {}
    /\ out' = IF Cardinality(out.pr) = 1
              THEN [out EXCEPT !.pc = "done", !.result = CHOOSE t \in out.pr : TRUE]
              ELSE [out EXCEPT !.pc = "walk"]
    /\ UNCHANGED <<op, arg, latticeVars, hookVars>>

NextPromote ==
    \/ \E tr \in Vertices \X Vertices \X Vertices,
          uv \in {w \in (0..ParamScale) \X (0..ParamScale) : w[1] + w[2] <= ParamScale} :
            ParametricTriangleTetCall(tr, uv)
    \/ \E vertex0, vertex1 \in Vertices, param \in 0..ParamScale :
            ParametricEdgeTetCall(vertex0, vertex1, param)
    \/ ParametricPromote
    \/ ParametricFound
    \/ \E vertex \in Vertices, materialTarget \in PromoteTargets :
            VertexSolidLinePathCall(vertex, materialTarget)
    \/ VertexSolidLinePathPromote
    \/ VertexSolidLinePathFound

SpecPromote == InitPromote /\ [][NextPromote]_vars

(***************************************************************************)
(* Claims about the promotion loops (under SpecPromote).                   *)
(***************************************************************************)
CallEnded == out.pc \in {"done", "logic_error", "assert", "walk", "vertexSolidLinePath"}

Populated(tc) == \E t \in 0..Len(tetCentroids) - 1 : tetCentroid(t) = tc

\* C8: in parametricTriangleTet and parametricEdgeTet, when the located
\* microtet centroid and its size-2 ancestor are not populated and its size-4
\* ancestor is, the call makes exactly two promotions and returns the one tet
\* at the size-4 centroid.
C8_TwoPromotions ==
    (op \in {"parametricTriangleTet", "parametricEdgeTet"} /\ CallEnded) =>
        LET tC1 == gridLocusToLowestTetCentroid(out.gridLocus, out.scale)
            tC2 == centroidUpOneLevel(tC1)
            tC4 == centroidUpOneLevel(tC2)
        IN  (~Populated(tC1) /\ ~Populated(tC2) /\ Populated(tC4)) =>
                /\ out.pc = "done"
                /\ out.promotions = 2
                /\ \A t \in 0..Len(tetCentroids) - 1 :
                      tetCentroid(t) = tC4 <=> t = out.result

\* a point of a triangle whose three vertices are in a size-4 tet, resolved
\* to that tet after two promotions
C8_Witness ==
    /\ op = "parametricTriangleTet"
    /\ out.pc = "done"
    /\ out.promotions = 2
    /\ centroidHalfAxisSize(tetCentroid(out.result)).size = 4
    /\ ~Populated(gridLocusToLowestTetCentroid(out.gridLocus, out.scale))

\* C9: every promotion loop makes at most tetSubdivisionLevels promotions,
\* and a call that finds no populated centroid within that depth ends with
\* the logic error.
C9_NoAncestorWithinDepth ==
    \A tc \in {gridLocusToLowestTetCentroid(out.gridLocus, out.scale)}
              \cup AncestorsOf(gridLocusToLowestTetCentroid(out.gridLocus, out.scale),
                               tetSubdivisionLevels - 1) : ~Populated(tc)

C9_PromotionsWithinDepth ==
    op \in {"parametricTriangleTet", "parametricEdgeTet", "vertexSolidLinePath"} =>
        /\ out.promotions <= tetSubdivisionLevels
        /\ (CallEnded /\ C9_NoAncestorWithinDepth) => out.pc = "logic_error"

\* C21: in vertexSolidLinePath, when no tet is at the finest centroid of the
\* target and an ancestor within tetSubdivisionLevels promotions is
\* populated, the call returns the tet of the nearest such ancestor; the
\* logic error is raised only when no ancestor within that depth is populated.
C21_InitialLoopFindsAncestor ==
    (/\ op = "vertexSolidLinePath"
     /\ out.pc \in {"done", "logic_error"}
     /\ ~Populated(gridLocusToLowestTetCentroid(out.gridLocus, out.scale))) =>
        LET tc == gridLocusToLowestTetCentroid(out.gridLocus, out.scale)
            found == {n \in 1..tetSubdivisionLevels :
                         \E up \in AncestorsOf(tc, n) : Populated(up)}
        IN  IF found = {} THEN out.pc = "logic_error"
            ELSE /\ out.pc = "done"
                 /\ out.result \in 0..Len(tetCentroids) - 1
                 /\ tetCentroid(out.result) \in AncestorsOf(tc, CHOOSE n \in found :
                                                                  \A m \in found : n <= m)

(***************************************************************************)
(* The walk of vertexSolidLinePath (lines 701-779) and the fallback of     *)
(* parametricTriangleTet to it (lines 1115-1119), one loop iteration per   *)
(* step.  The locals of the walk are the fields of out.walk (at is "none"   *)
(* before a walk; path holds every tcAdj of the walk so far); out.paths    *)
(* holds the results of the calls parametricTriangleTet has made so far.   *)
(* Positions are integers over the scale of the target (out.scale), the    *)
(* line parameter p is the fraction p[1] / p[2] with p[2] > 0, and the     *)
(* arithmetic is exact.                                                    *)
(***************************************************************************)

\* the vertex the walk starts from: the argument of vertexSolidLinePath, or
\* tr[i] in the loop of line 1115
walkVertex == IF op = "vertexSolidLinePath" THEN arg.vertex ELSE arg.tr[Len(out.paths) + 1]

\* line 722: R of Mat3x3f(N, V1, V2) * R = b, the columns being N, V1 and V2
\* as in line 268; N and b are over scale.  R[i] is r[i][1] / r[i][2] with
\* r[i][2] > 0.  A singular system has no solution to test.
solveLinearSystem(N, V1, V2, b, scale) ==
    LET det == Det3(N, V1, V2)
        sgn == IF det < 0 THEN -1 ELSE 1
    IN  [singular |-> det = 0,
         R |-> << <<sgn * Det3(b, V1, V2), sgn * det>>,
                  <<sgn * Det3(N, b, V2), sgn * det * scale>>,
                  <<sgn * Det3(N, V1, b), sgn * det * scale>> >>]

\* line 723: R[0] > p and (R[1], R[2]) in the triangle
faceCrossed(R, p) ==
    /\ R[1][1] * p[2] > p[1] * R[1][2]
    /\ R[2][1] >= 0 /\ R[2][1] <= R[2][2]
    /\ R[3][1] >= 0 /\ R[3][1] <= R[3][2]
    /\ R[2][1] + R[3][1] <= R[2][2]

\* lines 718-722: the system of face tetFace of the tet with node positions gl
faceSolution(gl, tetFace, vLoc, N, scale) ==
    solveLinearSystem(N, [k \in 1..3 |-> gl[(tetFace + 1) % 4][k] - gl[tetFace][k]],
                      [k \in 1..3 |-> gl[(tetFace + 2) % 4][k] - gl[tetFace][k]],
                      [k \in 1..3 |-> vLoc[k] - scale * gl[tetFace][k]], scale)

\* lines 712-716: the size of the tet with node positions gl
tetSizeOf(gl) ==
    LET i == CHOOSE i \in 1..3 : /\ gl[0][i] # gl[1][i]
                                 /\ \A j \in 1..i - 1 : gl[0][j] = gl[1][j]
    IN  (gl[1][i] - gl[0][i]) \div 2

\* lines 717-728: the first face whose solution sol[tetFace] passes the test
firstFaceCrossed(sol, tetSize, p) ==
    LET faces == {f \in 0..3 : ~sol[f].singular /\ faceCrossed(sol[f].R, p)}
    IN  IF faces = {}
        THEN [hit |-> FALSE, tetSize |-> tetSize, tetFace |-> 4, lineParam |-> p]
        ELSE CHOOSE x \in {[hit |-> TRUE, tetSize |-> tetSize, tetFace |-> tetFace,
                            lineParam |-> sol[tetFace].R[1]] :
                              tetFace \in {f \in faces : \A g \in faces : f <= g}} : TRUE

\* lines 709-729: the first face of tet the line crosses beyond p
tetIntersect(tet, vLoc, N, scale, p) ==
    CHOOSE x \in
        UNION {{firstFaceCrossed(sol, tetSize, p) :
                   sol \in {[f \in 0..3 |-> faceSolution(gl, f, vLoc, N, scale)]},
                   tetSize \in {tetSizeOf(gl)}} :
                      gl \in {centroidToNodeLoci(tetCentroid(tet))}} : TRUE

\* the return of vertexSolidLinePath with result r: the end of the call, or
\* lines 1116-1121 of parametricTriangleTet, which returns the first result
\* above -1 and tries the next vertex otherwise
pathReturn(o, r) ==
    IF op = "vertexSolidLinePath" THEN [o EXCEPT !.pc = "done", !.result = r]
    ELSE LET paths == Append(o.paths, r)
         IN  IF r > -1 THEN [o EXCEPT !.pc = "done", !.result = r, !.paths = paths]
             ELSE IF Len(paths) < 3
             THEN [o EXCEPT !.pc = "vertexSolidLinePath", !.paths = paths]
             ELSE [o EXCEPT !.pc = "done", !.result = -1, !.paths = paths]

\* lines 1115-1116 and 687-700: parametricTriangleTet calls
\* vertexSolidLinePath(tr[i], gridLocus).  The loop of line 691 does not look
\* targetTets up again and ends with the logic error.
PathFromVertex ==
    /\ op = "parametricTriangleTet"
    /\ out.pc = "vertexSolidLinePath"
    /\ LET tc == gridLocusToLowestTetCentroid(out.gridLocus, out.scale)
           targetTets == tetHashEqualRange(tc)
       IN  out' = IF targetTets = {} THEN [out EXCEPT !.pc = "logic_error"]
                  ELSE IF Cardinality(targetTets) = 1
                  THEN pathReturn(out, CHOOSE t \in targetTets : TRUE)
                  ELSE [out EXCEPT !.pc = "walk"]
    /\ UNCHANGED <<op, arg, latticeVars, hookVars>>

\* lines 701-731: the walk starts in the tet of the vertex
WalkStart ==
    /\ op \in {"vertexSolidLinePath", "parametricTriangleTet"}
    /\ out.pc = "walk"
    /\ \E vertex \in {walkVertex} :
       \E vLoc \in {[k \in 1..3 |-> g[k] * (out.scale \div VertexScale)] :
                       g \in {vertexGridLocus(vertex)}} :
       \E N \in {[k \in 1..3 |-> out.gridLocus[k] - vLoc[k]]} :
       \E x \in {tetIntersect(vertexTets[vertex + 1], vLoc, N, out.scale, <<0, 1>>)} :
       \E w \in {[vertex |-> vertex, vLoc |-> vLoc, N |-> N,
                  tetNow |-> vertexTets[vertex + 1], sizeNow |-> x.tetSize,
                  face |-> x.tetFace, p |-> x.lineParam,
                  nodeSet |-> lnodes(vertexTets[vertex + 1]), steps |-> 0,
                  tcAdj |-> <<>>, path |-> <<>>,
                  at |-> IF x.hit THEN "start" ELSE "noExit"]} :
          out' = IF x.hit THEN [out EXCEPT !.pc = "walking", !.walk = w]
                 ELSE pathReturn([out EXCEPT !.walk = w], -1)
    /\ UNCHANGED <<op, arg, latticeVars, hookVars>>

\* lines 737-744: the first populated ancestor of the unpopulated centroid,
\* looked up at least once and then while count <= _tetSubdivisionLevels
RECURSIVE walkLookUp(_, _)
walkLookUp(tc, count) ==
    LET up == centroidUpOneLevel(tc)
        tit == tetHashEqualRange(up)
    IN  IF count + 1 <= tetSubdivisionLevels /\ tit = {}
        THEN LET rest == walkLookUp(up, count + 1)
             IN  [tit |-> rest.tit,
                  asserted |-> rest.asserted \/ ~upOneLevelAssertion(tc)]
        ELSE [tit |-> tit, asserted |-> ~upOneLevelAssertion(tc)]

\* the walk ends at line 772 or 775 with -1
walkReturn(o, at, tetNow, tcAdj) ==
    pathReturn([o EXCEPT !.walk.at = at, !.walk.tetNow = tetNow, !.walk.tcAdj = tcAdj,
                         !.walk.path = Append(@, tcAdj), !.walk.steps = @ + 1], -1)

\* the call ends with an exception or a failed assertion
walkStop(o, pc, at, tcAdj) ==
    [o EXCEPT !.pc = pc, !.walk.at = at, !.walk.tcAdj = tcAdj,
              !.walk.path = Append(@, tcAdj), !.walk.steps = @ + 1]

\* lines 736-753 and 771-772: no tet at tcAdj
walkUnpopulated(o, tcAdj) ==
    UNION {(IF look.asserted THEN {walkStop(o, "assert", "unpopulated", tcAdj)} ELSE {})
           \cup (IF look.tit # {}
                 THEN {walkReturn(o, "unpopulated", tit, tcAdj) : tit \in look.tit}
                 ELSE IF subtetCentroidsThrows(tcAdj)
                 THEN {walkStop(o, "logic_error", "unpopulated", tcAdj)}
                 ELSE {walkReturn(o, "unpopulated", o.walk.tetNow, tcAdj)}) :
              look \in {walkLookUp(tcAdj, 1)}}

\* lines 773-775: the walk goes on in tet
walkCross(o, tet, tcAdj) ==
    CHOOSE n \in
        {IF ~x.hit THEN walkReturn(o, "noExit", tet, tcAdj)
         ELSE [o EXCEPT !.walk.at = "crossed", !.walk.tetNow = tet, !.walk.tcAdj = tcAdj,
                        !.walk.path = Append(@, tcAdj), !.walk.sizeNow = x.tetSize, !.walk.face = x.tetFace,
                        !.walk.p = x.lineParam, !.walk.steps = @ + 1] :
            x \in {tetIntersect(tet, o.walk.vLoc, o.walk.N, o.scale, o.walk.p)}} : TRUE

\* lines 754-775: the tets pr at tcAdj, visited in the unspecified order of
\* the multimap until one shares a node with nodeSet
walkPopulated(o, tcAdj, pr) ==
    UNION {(IF o.walk.sizeNow > 3 THEN {walkStop(o, "assert", "unselected", tcAdj)} ELSE {})
           \cup (IF sharing = {}
                 THEN {walkReturn(o, "unselected",
                                  IF Cardinality(pr) = 1 THEN CHOOSE t \in pr : TRUE
                                  ELSE o.walk.tetNow, tcAdj)}
                 ELSE {walkCross(o, t, tcAdj) : t \in sharing}) :
              sharing \in {{t \in pr : lnodes(t) \cap o.walk.nodeSet # {}}}}

\* lines 733-775: one iteration of while (p < 1.0f).  walk.at: "unpopulated"
\* when no tet is at tcAdj, "unselected" when no tet at tcAdj shares a node
\* with nodeSet, "noExit" when tetIntersect fails, "crossed" when the walk
\* goes on in the tet chosen.  A build that keeps assertions stops at a
\* failed one.
WalkStep ==
    /\ op \in {"vertexSolidLinePath", "parametricTriangleTet"}
    /\ out.pc = "walking"
    /\ out.walk.p[1] < out.walk.p[2]
    /\ \E adj \in {faceAdjacentCentroid(tetCentroid(out.walk.tetNow), out.walk.face)} :
       \E pr \in {tetHashEqualRange(adj.tcAdj)} :
          out' \in IF pr = {} THEN walkUnpopulated(out, adj.tcAdj)
                   ELSE walkPopulated(out, adj.tcAdj, pr)
    /\ UNCHANGED <<op, arg, latticeVars, hookVars>>

\* lines 777-779
WalkEnd ==
    /\ op \in {"vertexSolidLinePath", "parametricTriangleTet"}
    /\ out.pc = "walking"
    /\ out.walk.p[1] >= out.walk.p[2]
    /\ out' = pathReturn([out EXCEPT !.walk.at = "end"],
                         IF out.walk.p[1] > out.walk.p[2] THEN out.walk.tetNow ELSE -1)
    /\ UNCHANGED <<op, arg, latticeVars, hookVars>>

\* the lattices the walk is run in: each entry is a centroid and the node
\* positions of the tet that get new nodes (none: a tet of the uncut
\* lattice, all four: a copy cut free of its neighbours)
Cut == {0, 1, 2, 3}

WalkLattices ==
    << [levels |-> 1,
        tets |-> << <<<<2, 3, 4>>, {}>>, <<<<2, 5, 4>>, {}>>, <<<<4, 2, 3>>, {}>>,
                    <<<<2, 4, 5>>, Cut>>, <<<<2, 4, 5>>, Cut>>, <<<<4, 2, 3>>, Cut>> >>],
       [levels |-> 1,
        tets |-> << <<<<2, 3, 4>>, {}>>, <<<<2, 5, 4>>, {}>>,
                    <<<<2, 4, 5>>, {}>>, <<<<2, 4, 5>>, Cut>> >>],
       [levels |-> 2,
        tets |-> << <<<<2, 3, 4>>, {}>>, <<<<4, 2, 3>>, {}>>,
                    <<<<4, 2, 3>>, Cut>>, <<<<0, 4, 6>>, {}>> >>],
       [levels |-> 1,
        tets |-> << <<<<2, 5, 4>>, {}>>, <<<<2, 4, 5>>, {}>>, <<<<2, 3, 4>>, {}>>,
                    <<<<2, 3, 4>>, Cut>>, <<<<3, 6, 4>>, {}>>, <<<<3, 6, 4>>, Cut>> >>],
       [levels |-> 1,
        tets |-> << <<<<3, 2, 4>>, {}>>, <<<<2, 4, 5>>, {}>>, <<<<2, 4, 3>>, {}>>,
                    <<<<1, 2, 4>>, {}>>, <<<<4, 2, 3>>, {}>>, <<<<4, 2, 3>>, Cut>>,
                    <<<<2, 3, 4>>, Cut>> >>] >>

\* a tet of the uncut lattice, or a cut copy whose other nodes are those of
\* the first tet at the centroid
walkTet(st, tc, fresh) ==
    IF fresh = {} THEN addTet(st, tc)
    ELSE LET at == {t \in 0..Len(st.tetCentroids) - 1 : st.tetCentroids[t + 1] = tc}
         IN  appendTet(st, tc, fresh,
                       IF at = {} THEN <<-1, -1, -1, -1>>
                       ELSE st.tetNodes[(CHOOSE t \in at : \A u \in at : t <= u) + 1])

\* the lattice of the tets cs, one vertex embedded in each
RECURSIVE walkLatticeOf(_)
walkLatticeOf(cs) ==
    IF cs = <<>> THEN EmptyLattice
    ELSE CHOOSE st \in {embedVertex(walkTet(prev, c[1], c[2]), Len(cs) - 1) :
                           c \in {cs[Len(cs)]},
                           prev \in {walkLatticeOf(rest) :
                                        rest \in {SubSeq(cs, 1, Len(cs) - 1)}}} : TRUE

InitWalk ==
    /\ op = "idle"
    /\ NoHooks
    /\ arg = <<>>
    /\ out = <<>>
    /\ \E i \in 1..Len(WalkLattices) :
          /\ \E st \in {walkLatticeOf(WalkLattices[i].tets)} : LatticeIs(st)
          /\ tetSubdivisionLevels = WalkLattices[i].levels

\* the target of a walk: a point of the tet at centroid tc, over VertexScale
TargetWeight == <<4, 2, 1>>

walkTargetIn(tc) ==
    LET loc == centroidToNodeLoci(tc)
    IN  [k \in 1..3 |->
           loc[0][k] * (VertexScale - TargetWeight[1] - TargetWeight[2] - TargetWeight[3])
               + loc[1][k] * TargetWeight[1] + loc[2][k] * TargetWeight[2]
               + loc[3][k] * TargetWeight[3]]

\* targets in the populated microtets and in the microtets across their faces
WalkTargets ==
    {walkTargetIn(tc) :
        tc \in UNION {{tetCentroid(t)} \cup {faceAdjacentCentroid(tetCentroid(t), f).tcAdj :
                                               f \in 0..3} :
                         t \in {u \in 0..Len(tetCentroids) - 1 :
                                   centroidHalfAxisSize(tetCentroid(u)).size = 1}}}

NextWalk ==
    \/ \E tr \in Vertices \X Vertices \X Vertices,
          uv \in {w \in (0..ParamScale) \X (0..ParamScale) : w[1] + w[2] <= ParamScale} :
            ParametricTriangleTetCall(tr, uv)
    \/ ParametricPromote
    \/ ParametricFound
    \/ PathFromVertex
    \/ \E vertex \in Vertices, materialTarget \in WalkTargets :
            VertexSolidLinePathCall(vertex, materialTarget)
    \/ VertexSolidLinePathPromote
    \/ VertexSolidLinePathFound
    \/ WalkStart
    \/ WalkStep
    \/ WalkEnd

SpecWalk == InitWalk /\ [][NextWalk]_vars

(***************************************************************************)
(* Claims about the walk and the level 1 choice (under SpecWalk).          *)
(***************************************************************************)

\* the call of vertexSolidLinePath has returned from its walk
WalkReturned == op = "vertexSolidLinePath" /\ out.pc = "done" /\ out.walk.at # "none"

\* C14: in vertexSolidLinePath, when no tet is at the centroid across the
\* exit face and one of its ancestors within the subdivision depth is
\* populated, the walk does not return -1 at that step.
C14_CrossesIntoAncestor ==
    (/\ op = "vertexSolidLinePath"
     /\ out.walk.at = "unpopulated"
     /\ tetHashEqualRange(out.walk.tcAdj) = {}
     /\ \E tc \in AncestorsOf(out.walk.tcAdj, tetSubdivisionLevels - 1) : Populated(tc))
        => ~(out.pc = "done" /\ out.result = -1)

\* C15: when the walk of vertexSolidLinePath stops because none of several
\* tets at the adjacent centroid can be selected, the result is -2, not -1.
C15_BlockedIsMinusTwo ==
    (/\ WalkReturned
     /\ out.walk.at = "unselected"
     /\ Cardinality(tetHashEqualRange(out.walk.tcAdj)) >= 2)
        => out.result = -2

\* C16: in parametricTriangleTet, when the located centroid is at level 1 and
\* several tets are at it, the result is (a) the tet of the first vertex of
\* the triangle whose tet is at that centroid; else (b) a tet at the centroid
\* sharing a node with the tet of one of the vertices; else (c) the first
\* result above -1 of vertexSolidLinePath from the vertices in order; it is
\* -1 only when (a) and (b) do not apply and the three walks return -1.
C16_Level1Order ==
    (/\ op = "parametricTriangleTet"
     /\ out.pc = "done"
     /\ out.level = 1
     /\ Cardinality(tetHashEqualRange(out.tC)) >= 2) =>
        LET hits == {i \in 1..3 : tetCentroid(vertexTets[arg.tr[i] + 1]) = out.tC}
            sharing == {t \in tetHashEqualRange(out.tC) :
                           \E i \in 1..3 :
                              NodeSet(t) \cap NodeSet(vertexTets[arg.tr[i] + 1]) # {}}
        IN  /\ hits # {} =>
                  /\ \E i \in hits : /\ \A j \in hits : i <= j
                                     /\ out.result = vertexTets[arg.tr[i] + 1]
                  /\ out.paths = <<>>
            /\ (hits = {} /\ sharing # {}) => (out.result \in sharing /\ out.paths = <<>>)
            /\ (hits = {} /\ sharing = {}) =>
                  /\ out.paths # <<>>
                  /\ out.result = out.paths[Len(out.paths)]
                  /\ \A i \in 1..Len(out.paths) - 1 : out.paths[i] = -1
                  /\ out.walk.at # "none" => out.walk.vertex = arg.tr[Len(out.paths)]
            /\ out.result = -1 => (hits = {} /\ sharing = {} /\ out.paths = <<-1, -1, -1>>)

\* a point of a triangle in a centroid with two tets cut free of the tets of
\* the vertices: the three walks were made and returned -1
C16_Witness ==
    /\ op = "parametricTriangleTet"
    /\ out.pc = "done"
    /\ out.level = 1
    /\ Cardinality(tetHashEqualRange(out.tC)) >= 2
    /\ \A i \in 1..3 : tetCentroid(vertexTets[arg.tr[i] + 1]) # out.tC
    /\ out.paths = <<-1, -1, -1>>
    /\ out.result = -1

\* C19: every iteration of the walk of vertexSolidLinePath returns or goes on
\* with a strictly greater line parameter; the walk returns a tet only when
\* the parameter has exceeded 1, and returns -1 when the current tet has no
\* exit face beyond the current parameter.
C19_WalkProgress ==
    [][/\ (/\ op = "vertexSolidLinePath"
           /\ out.pc = "walking"
           /\ out.walk.p[1] < out.walk.p[2]
           /\ out' # out)
              => \/ out'.pc = "done"
                 \/ /\ out'.pc = "walking"
                    /\ out'.walk.p[1] * out.walk.p[2] > out.walk.p[1] * out'.walk.p[2]
       /\ WalkReturned' =>
              /\ out'.result >= 0 => out'.walk.p[1] > out'.walk.p[2]
              /\ out'.walk.at = "noExit" => out'.result = -1]_vars

\* C22: in vertexSolidLinePath, when the walk met adjacent centroids and
\* every one of them is populated by exactly one tet, the walk crossed into
\* that tet at every step and returns a tet at the centroid of the target,
\* not -1.
C22_SinglyPopulatedPath ==
    (/\ WalkReturned
     /\ out.walk.path # <<>>
     /\ \A i \in 1..Len(out.walk.path) :
           Cardinality(tetHashEqualRange(out.walk.path[i])) = 1) =>
        /\ out.walk.at # "unselected"
        /\ out.result >= 0
        /\ tetCentroid(out.result) = gridLocusToLowestTetCentroid(out.gridLocus, out.scale)

(***************************************************************************)
(* Hooks (hooks.cpp).  A hookConstraint is kept by its triangle and its    *)
(* constraint id (-1: no constraint yet).  The lattice lookup is the call  *)
(* of parametricTriangleTet; its result depends on a lattice that the      *)
(* cutter changes between calls, so every call may find a tet or fail.     *)
(***************************************************************************)

\* tetIdx returned by _vnt->parametricTriangleTet: a tet, or -1
LookupResults == {-1, 0}

\* the id returned by _ptp->addHook
ConstraintId == 0

\* _hooks.erase(hit) when hookNumber is found (lines 25-35)
deleteHook(hs, hookNumber) == [h \in DOMAIN hs \ {hookNumber} |-> hs[h]]

\* lines 97-130: the hook inserted at hookNumber and its fields set
insertHook(hs, hookNumber, triangle, constraintId) ==
    [h \in DOMAIN hs \cup {hookNumber} |->
        IF h = hookNumber THEN [triangle |-> triangle, constraintId |-> constraintId]
        ELSE hs[h]]

\* line 149: the lookup is made when the cutter has its triangles and the
\* solver is initialized
lookupGate(triangle) == deepCutTriangles /\ solverInitialized

InitHooks ==
    /\ op = "idle"
    /\ arg = <<>>
    /\ out = <<>>
    /\ clear
    /\ tetSubdivisionLevels = 1
    /\ hooks = NoHookConstraints
    /\ hookNow = 0
    /\ triangleMaterial \in [Triangles -> {-1, 0}]
    /\ deepCutTriangles \in BOOLEAN
    /\ solverInitialized \in BOOLEAN
    /\ lookups = {}

AddHook(triangle) ==
    /\ hookNow < MaxHooks
    /\ op' = "addHook"
    /\ arg' = [triangle |-> triangle, material |-> triangleMaterial[triangle]]
    /\ IF lookupGate(triangle)
       THEN /\ lookups' = {[hook |-> hookNow, triangle |-> triangle,
                            material |-> triangleMaterial[triangle]]}
            /\ \E tetIdx \in LookupResults :
                  IF tetIdx < 0
                  THEN /\ hooks' = deleteHook(insertHook(hooks, hookNow, triangle, -1), hookNow)
                       /\ hookNow' = hookNow
                       /\ out' = [ret |-> -1]
                  ELSE /\ hooks' = insertHook(hooks, hookNow, triangle, ConstraintId)
                       /\ hookNow' = hookNow + 1
                       /\ out' = [ret |-> hookNow]
       ELSE /\ lookups' = {}
            /\ hooks' = insertHook(hooks, hookNow, triangle, -1)
            /\ hookNow' = hookNow + 1
            /\ out' = [ret |-> hookNow]
    /\ UNCHANGED <<latticeVars, triangleMaterial, deepCutTriangles, solverInitialized>>

DeleteHook(hookNumber) ==
    /\ op' = "deleteHook"
    /\ arg' = [hookNumber |-> hookNumber]
    /\ out' = <<>>
    /\ hooks' = deleteHook(hooks, hookNumber)
    /\ lookups' = {}
    /\ UNCHANGED <<latticeVars, hookNow, triangleMaterial, deepCutTriangles,
                   solverInitialized>>

\* the orders in which the hooks in H can be visited by the loop
RECURSIVE HookOrders(_)
HookOrders(H) ==
    IF H = {} THEN {<<>>}
    ELSE UNION {{<<h>> \o rest : rest \in HookOrders(H \ {h})} : h \in H}

\* lines 175-197: the loop over the hooks still to visit, with the result f[h]
\* of the lookup for hook h
RECURSIVE updateHookPhysics(_, _, _, _, _)
updateHookPhysics(hs, now, order, f, log) ==
    IF order = <<>>
    THEN [hooks |-> hs, hookNow |-> now, ret |-> TRUE, lookups |-> log, failed |-> -1]
    ELSE LET h == Head(order)
         IN  IF triangleMaterial[hs[h].triangle] < 0
             THEN updateHookPhysics(deleteHook(hs, h), now, Tail(order), f, log)
             ELSE LET called == log \cup {[hook |-> h, triangle |-> hs[h].triangle,
                                           material |-> triangleMaterial[hs[h].triangle]]}
                  IN  IF f[h] < 0
                      THEN [hooks |-> deleteHook(hs, now - 1), hookNow |-> now - 1,
                            ret |-> FALSE, lookups |-> called, failed |-> h]
                      ELSE updateHookPhysics([hs EXCEPT ![h].constraintId = ConstraintId],
                                             now, Tail(order), f, called)

UpdateHookPhysics ==
    /\ op' = "updateHookPhysics"
    /\ arg' = [hooks |-> hooks]
    /\ \E order \in HookOrders(DOMAIN hooks), f \in [DOMAIN hooks -> LookupResults] :
          \E r \in {updateHookPhysics(hooks, hookNow, order, f, {})} :
             /\ hooks' = r.hooks
             /\ hookNow' = r.hookNow
             /\ lookups' = r.lookups
             /\ out' = [ret |-> r.ret, failed |-> r.failed]
    /\ UNCHANGED <<latticeVars, triangleMaterial, deepCutTriangles, solverInitialized>>

\* a cut takes the material from a triangle
CutTriangle(triangle) ==
    /\ triangleMaterial[triangle] >= 0
    /\ triangleMaterial' = [triangleMaterial EXCEPT ![triangle] = -1]
    /\ op' = "cut"
    /\ arg' = [triangle |-> triangle]
    /\ out' = <<>>
    /\ lookups' = {}
    /\ UNCHANGED <<latticeVars, hooks, hookNow, deepCutTriangles, solverInitialized>>

NextHooks ==
    \/ \E triangle \in Triangles : AddHook(triangle)
    \/ \E hookNumber \in 0..MaxHooks - 1 : DeleteHook(hookNumber)
    \/ UpdateHookPhysics
    \/ \E triangle \in Triangles : CutTriangle(triangle)

SpecHooks == InitHooks /\ [][NextHooks]_vars

(***************************************************************************)
(* Claims about the hooks (under SpecHooks).                               *)
(***************************************************************************)

\* C17: addHook and updateHookPhysics never call parametricTriangleTet for a
\* triangle without material (triangleMaterial < 0), and addHook answers -1
\* for such a triangle.
C17_NoLookupWithoutMaterial ==
    /\ \A l \in lookups : l.material >= 0
    /\ (op = "addHook" /\ arg.material < 0) => out.ret = -1

\* C23: when updateHookPhysics returns false because the lookup of hook h
\* failed, h is removed from the hook map and every other hook whose triangle
\* has material keeps its entry.
C23_FailedHookRemoved ==
    (op = "updateHookPhysics" /\ out.ret = FALSE) =>
        /\ out.failed \notin DOMAIN hooks
        /\ \A g \in DOMAIN arg.hooks \ {out.failed} :
              triangleMaterial[arg.hooks[g].triangle] >= 0 => g \in DOMAIN hooks

====
